---------------------------- MODULE Spec2Model ----------------------------
(***************************************************************************)
(* A model of the superinvestor dashboard: the raw-data fetch              *)
(* (core/fetch.py), the metric derivation (core/metrics.py), the           *)
(* statement normalisation helpers (metrics.py), the investor checklists   *)
(* (profiles/investors.py) and the bulk screener loop (app.py).            *)
(*                                                                         *)
(* Python floats are modelled as exact rationals; None, NaN and a raised   *)
(* exception are separate tagged values.  Every value is a record          *)
(* [k, num, den] so that values of different kinds can be compared.        *)
(***************************************************************************)
EXTENDS Integers, Sequences, FiniteSets, TLC

VARIABLES
    pc,               \* control position of the operation under way
    args,             \* the inputs of the function being called
    ret,              \* what the call returned (or raised)
    universe,         \* screener: the rows of the ticker universe (sp500_df)
    selected_profiles,\* screener: the profiles chosen in the multiselect
    max_tickers,      \* screener: the slider value
    work_i,           \* screener: number of work_df rows already iterated
    results_rows      \* screener: the result rows appended so far

vars == <<pc, args, ret, universe, selected_profiles, max_tickers, work_i, results_rows>>
screenerVars == <<universe, selected_profiles, max_tickers, work_i, results_rows>>

-----------------------------------------------------------------------------
(* Values: Python None, float NaN, a raised exception, and numbers n/d.    *)

None == [k |-> "none", num |-> 0, den |-> 1]
NaN  == [k |-> "nan",  num |-> 0, den |-> 1]
Exc  == [k |-> "exc",  num |-> 0, den |-> 1]

AbsInt(n) == IF n < 0 THEN -n ELSE n

RECURSIVE GCD(_, _)
GCD(a, b) == IF b = 0 THEN a ELSE GCD(b, a % b)

\* The number n/d in lowest terms with a positive denominator (d # 0).
Num(n, d) ==
    LET g == GCD(AbsInt(n), AbsInt(d))
        s == IF d < 0 THEN -1 ELSE 1
    IN [k |-> "num", num |-> (s * n) \div g, den |-> AbsInt(d) \div g]

Whole(n) == Num(n, 1)
\* A decimal literal given in hundredths: Pct(15) is 0.15.
Pct(n) == Num(n, 100)

IsNum(x)  == x.k = "num"
IsNone(x) == x.k = "none"
IsExc(x)  == x.k = "exc"
\* math.isnan / np.isnan of a value that is a float.
IsNaNv(x) == x.k = "nan"

\* Comparisons of Python floats: every comparison with NaN is False.
Le(a, b) == IsNum(a) /\ IsNum(b) /\ a.num * b.den <= b.num * a.den
Lt(a, b) == IsNum(a) /\ IsNum(b) /\ a.num * b.den <  b.num * a.den
Ge(a, b) == Le(b, a)
Gt(a, b) == Lt(b, a)

\* Arithmetic on floats (NaN propagates); None operands raise TypeError.
Arith(a, b, r) ==
    IF IsExc(a) \/ IsExc(b) \/ IsNone(a) \/ IsNone(b) THEN Exc
    ELSE IF IsNaNv(a) \/ IsNaNv(b) THEN NaN
    ELSE r

Add(a, b) == Arith(a, b, Num(a.num * b.den + b.num * a.den, a.den * b.den))
Sub(a, b) == Arith(a, b, Num(a.num * b.den - b.num * a.den, a.den * b.den))
Mul(a, b) == Arith(a, b, Num(a.num * b.num, a.den * b.den))
\* a / b on floats: ZeroDivisionError when b is zero (also for a NaN numerator).
TrueDiv(a, b) ==
    IF IsExc(a) \/ IsExc(b) \/ IsNone(a) \/ IsNone(b) THEN Exc
    ELSE IF IsNum(b) /\ b.num = 0 THEN Exc
    ELSE IF IsNaNv(a) \/ IsNaNv(b) THEN NaN
    ELSE Num(a.num * b.den, a.den * b.num)
AbsV(a) == IF IsNum(a) THEN Num(AbsInt(a.num), a.den) ELSE IF IsNaNv(a) THEN NaN ELSE Exc
Neg(a)  == IF IsNum(a) THEN Num(-a.num, a.den) ELSE IF IsNaNv(a) THEN NaN ELSE Exc

\* float(x): TypeError for None.
PyFloat(x) == IF IsNone(x) THEN Exc ELSE x
\* Truthiness of a value: None and zero are falsy, NaN is truthy.
Truthy(x) == IsNaNv(x) \/ (IsNum(x) /\ x.num # 0)
\* x == 0
PyEq0(x) == IsNum(x) /\ x.num = 0

\* dict.get(key) and dict.get(key, default) on a dict modelled as a function.
DictGet(d, key) == IF key \in DOMAIN d THEN d[key] ELSE None
DictGetOr(d, key, default) == IF key \in DOMAIN d THEN d[key] ELSE default

-----------------------------------------------------------------------------
(* The two _safe_div helpers.                                              *)

\* A plausible bug: no zero guard, the quotient is left to raise.
safe_div_unguarded(n, d) == TrueDiv(PyFloat(n), PyFloat(d))

\* metrics.py _safe_div
safe_div(n, d) ==
    LET body == IF PyEq0(d) \/ IsNaNv(d) THEN NaN
                ELSE TrueDiv(PyFloat(n), PyFloat(d))
    IN IF IsExc(body) THEN NaN ELSE body

\* A plausible bug: the None denominator is not screened and the TypeError escapes.
core_safe_div_unguarded(a, b) ==
    IF PyEq0(b) \/ IsNaNv(b) THEN NaN ELSE TrueDiv(PyFloat(a), PyFloat(b))

\* core/metrics.py _safe_div
core_safe_div(a, b) ==
    LET body == IF PyEq0(b) \/ IsNone(b) \/ IsNaNv(b) THEN NaN
                ELSE TrueDiv(PyFloat(a), PyFloat(b))
    IN IF IsExc(body) THEN NaN ELSE body

-----------------------------------------------------------------------------
(* Strings are sequences of one-character strings, so that the label       *)
(* normalisation of _coalesce_key is computed and not assumed.             *)

\* The ASCII letters, upper case beside lower case, and the digits; lowerOf
\* maps an upper-case letter to its lower-case form and kept is the class
\* [a-z0-9].
Alphabet ==
    LET upper == <<"A","B","C","D","E","F","G","H","I","J","K","L","M",
                   "N","O","P","Q","R","S","T","U","V","W","X","Y","Z">>
        lower == <<"a","b","c","d","e","f","g","h","i","j","k","l","m",
                   "n","o","p","q","r","s","t","u","v","w","x","y","z">>
        digits == {"0","1","2","3","4","5","6","7","8","9"}
    IN [upper |-> upper, lower |-> lower, digits |-> digits,
        lowerOf |-> [c \in {upper[i] : i \in 1..26} |->
                        lower[CHOOSE i \in 1..26 : upper[i] = c]],
        kept |-> digits \cup {lower[i] : i \in 1..26}]

\* str.lower() on one character.
lower_char(c) == IF c \in DOMAIN Alphabet.lowerOf THEN Alphabet.lowerOf[c] ELSE c

\* The characters that the pattern [^a-z0-9]+ leaves in place.
IsKept(c) == c \in Alphabet.kept

\* A plausible bug: the normalisation forgets to lower-case.
norm_case_sensitive(s) == SelectSeq(s, IsKept)

\* metrics.py _coalesce_key.norm: re.sub(r"[^a-z0-9]+", "", str(s).lower())
norm(s) == SelectSeq([i \in 1..Len(s) |-> lower_char(s[i])], IsKept)

NoKey == [found |-> FALSE, key |-> <<>>]

SetMin(S) == CHOOSE m \in S : \A x \in S : m <= x

\* A plausible bug: the loops are nested the other way round, so the first
\* KEY that matches any candidate wins.
coalesce_key_by_index(index_like, cands) ==
    LET hits == {j \in 1..Len(index_like) :
                    \E i \in 1..Len(cands) : norm(index_like[j]) = norm(cands[i])}
    IN IF hits = {} THEN NoKey
       ELSE [found |-> TRUE, key |-> index_like[SetMin(hits)]]

\* metrics.py _coalesce_key: the outer loop runs over the candidates, the
\* inner loop over the keys; None (NoKey) when nothing matches.
coalesce_key(index_like, cands) ==
    LET idx == [j \in 1..Len(index_like) |-> norm(index_like[j])]
        RECURSIVE try(_)
        try(i) ==
            IF i > Len(cands) THEN NoKey
            ELSE LET n == norm(cands[i])
                     hits == {j \in 1..Len(index_like) : idx[j] = n}
                 IN IF hits # {}
                    THEN [found |-> TRUE, key |-> index_like[SetMin(hits)]]
                    ELSE try(i + 1)
    IN try(1)

-----------------------------------------------------------------------------
(* Quarterly statements.  A DataFrame is [index, rows]: index is the       *)
(* sequence of row labels, rows[j] the values of row j, one per period,    *)
(* most recent period first.  NoFrame stands for a None argument.          *)

EmptyFrame == [isNone |-> FALSE, index |-> <<>>, rows |-> <<>>]
NoFrame    == [isNone |-> TRUE,  index |-> <<>>, rows |-> <<>>]

\* DataFrame.empty: no rows or no columns.
FrameEmpty(qdf) == Len(qdf.index) = 0 \/ Len(qdf.rows[1]) = 0

\* qdf.loc[lab]: the row under the label (labels of a statement are distinct).
Loc(qdf, lab) == qdf.rows[CHOOSE j \in 1..Len(qdf.index) : qdf.index[j] = lab]

\* Series.dropna()
dropna(s) == SelectSeq(s, LAMBDA v : ~IsNaNv(v))

\* Series.iloc[:n]
ilocHead(s, n) == SubSeq(s, 1, IF Len(s) < n THEN Len(s) ELSE n)

RECURSIVE SumSeq(_)
SumSeq(s) == IF Len(s) = 0 THEN Whole(0) ELSE Add(s[1], SumSeq(Tail(s)))

\* A plausible bug: no slice, every reported period is summed.
ttm_sum_all(qdf, labels) ==
    IF qdf.isNone \/ FrameEmpty(qdf) THEN NaN
    ELSE LET lab == coalesce_key(qdf.index, labels)
         IN IF ~lab.found THEN NaN
            ELSE LET s == dropna(Loc(qdf, lab.key))
                 IN IF Len(s) = 0 THEN NaN ELSE SumSeq(s)

\* metrics.py _ttm_sum: NaN values are dropped first, then the first four
\* of what is left are summed.
ttm_sum(qdf, labels) ==
    IF qdf.isNone \/ FrameEmpty(qdf) THEN NaN
    ELSE LET lab == coalesce_key(qdf.index, labels)
         IN IF ~lab.found THEN NaN
            ELSE LET s == dropna(Loc(qdf, lab.key))
                 IN IF Len(s) = 0 THEN NaN ELSE SumSeq(ilocHead(s, 4))

\* A plausible bug: the last element instead of the first.
mrq_value_last(qdf, labels) ==
    IF qdf.isNone \/ FrameEmpty(qdf) THEN NaN
    ELSE LET lab == coalesce_key(qdf.index, labels)
         IN IF ~lab.found THEN NaN
            ELSE LET s == dropna(Loc(qdf, lab.key))
                 IN IF Len(s) = 0 THEN NaN ELSE s[Len(s)]

\* metrics.py _mrq_value: NaN values are dropped first, then the first of
\* what is left is returned.
mrq_value(qdf, labels) ==
    IF qdf.isNone \/ FrameEmpty(qdf) THEN NaN
    ELSE LET lab == coalesce_key(qdf.index, labels)
         IN IF ~lab.found THEN NaN
            ELSE LET s == dropna(Loc(qdf, lab.key))
                 IN IF Len(s) = 0 THEN NaN ELSE s[1]

-----------------------------------------------------------------------------
(* core/fetch.py and core/metrics.py.  The yfinance info dict is a         *)
(* function from the keys present to their values; the price history is    *)
(* the sequence of its Close values, oldest first.                         *)

EmptyDict == <<>>

\* A dict-valued field that holds None instead of a dict.
IsNoneDict(d) == "k" \in DOMAIN d /\ d["k"] = "none"

\* What the provider does for one ticker: each of the two calls either
\* raises or delivers.
Upstream(infoRaises, info, historyRaises, history) ==
    [infoRaises |-> infoRaises, info |-> info,
     historyRaises |-> historyRaises, history |-> history]

\* A plausible bug: the fetch lets a failed info call propagate.
fetch_ticker_data_strict(up) ==
    IF up.infoRaises THEN [raised |-> TRUE, info |-> EmptyDict, history |-> <<>>]
    ELSE [raised |-> FALSE, info |-> up.info,
          history |-> IF up.historyRaises THEN <<>> ELSE up.history]

\* core/fetch.py fetch_ticker_data: both calls are wrapped, a failure
\* becomes an empty dict / an empty frame, and a dict is always returned.
fetch_ticker_data(up) ==
    [raised  |-> FALSE,
     info    |-> IF up.infoRaises \/ IsNoneDict(up.info) THEN EmptyDict ELSE up.info,
     history |-> IF up.historyRaises THEN <<>> ELSE up.history]

\* np.isnan(x) as a guard: TypeError for None.
NpIsNanRaises(x) == IsNone(x) \/ IsExc(x)

\* price: info["currentPrice"], else the last Close of the history.
cm_price(info, history) ==
    LET price == DictGet(info, "currentPrice")
    IN IF IsNone(price) /\ Len(history) > 0 THEN history[Len(history)] ELSE price

\* market_cap: info["marketCap"], else price * sharesOutstanding.
cm_market_cap(info, price) ==
    LET market_cap == DictGet(info, "marketCap")
        shares_out == DictGet(info, "sharesOutstanding")
    IN IF IsNone(market_cap) /\ ~IsNone(price) /\ Truthy(shares_out)
       THEN Mul(price, shares_out)
       ELSE market_cap

\* a or b or c
PyOr3(a, b, c) == IF Truthy(a) THEN a ELSE IF Truthy(b) THEN b ELSE c

cm_net_income(info) ==
    PyOr3(DictGet(info, "netIncomeToCommon"), DictGet(info, "netIncome"),
          DictGet(info, "profit"))

\* pe: info["trailingPE"], else market_cap / net_income, else NaN.
cm_pe(info, market_cap) ==
    LET pe0 == DictGet(info, "trailingPE")
        net_income == cm_net_income(info)
        pe1 == IF IsNone(pe0) /\ Truthy(net_income)
               THEN core_safe_div(market_cap, net_income) ELSE pe0
    IN IF IsNone(pe1) THEN NaN ELSE pe1

\* _safe_div(num, den) if den else NaN
cm_ratio_if(num, den) == IF Truthy(den) THEN core_safe_div(num, den) ELSE NaN

\* A plausible bug: the pe > 0 test is dropped.
cm_earnings_yield_any_sign(pe) ==
    IF Truthy(pe) /\ ~IsNaNv(pe) THEN TrueDiv(Whole(1), pe) ELSE NaN

\* earnings_yield = 1 / pe when pe is non-zero, not NaN and positive.
cm_earnings_yield(pe) ==
    IF Truthy(pe) /\ ~IsNaNv(pe) /\ Gt(pe, Whole(0))
    THEN TrueDiv(Whole(1), pe) ELSE NaN

\* A plausible bug: a missing numerator is read as zero.
cm_ratio_if_both_zero_filled(a, b) ==
    IF Truthy(b) THEN core_safe_div(IF Truthy(a) THEN a ELSE Whole(0), b) ELSE NaN

\* _safe_div(a, b) if (a and b) else NaN
cm_ratio_if_both(a, b) ==
    IF Truthy(a) /\ Truthy(b) THEN core_safe_div(a, b) ELSE NaN

\* A plausible bug: revenue growth is preferred over earnings growth.
cm_growth_for_peg_revenue_first(earnings_growth, rev_growth) ==
    IF NpIsNanRaises(earnings_growth) THEN Exc
    ELSE IF ~IsNaNv(rev_growth) /\ ~IsNone(rev_growth) THEN rev_growth
    ELSE earnings_growth

\* growth_for_peg = earnings_growth if not np.isnan(earnings_growth) else rev_growth
cm_growth_for_peg(earnings_growth, rev_growth) ==
    IF NpIsNanRaises(earnings_growth) THEN Exc
    ELSE IF ~IsNaNv(earnings_growth) THEN earnings_growth
    ELSE rev_growth

\* A plausible bug: the growth > 0 guard is dropped.
cm_peg_ratio_unguarded(pe, growth_for_peg) ==
    IF IsExc(growth_for_peg) THEN Exc
    ELSE IF IsNaNv(pe) THEN NaN
    ELSE IF NpIsNanRaises(growth_for_peg) THEN Exc
    ELSE IF ~IsNaNv(growth_for_peg) /\ ~PyEq0(growth_for_peg)
         THEN TrueDiv(pe, Mul(growth_for_peg, Whole(100)))
    ELSE NaN

\* peg_ratio: pe / (growth * 100) when pe and growth are not NaN and
\* growth > 0; the `and` chain stops at a NaN pe before np.isnan(growth).
cm_peg_ratio(pe, growth_for_peg) ==
    IF IsExc(growth_for_peg) THEN Exc
    ELSE IF IsNaNv(pe) THEN NaN
    ELSE IF NpIsNanRaises(growth_for_peg) THEN Exc
    ELSE IF ~IsNaNv(growth_for_peg) /\ Gt(growth_for_peg, Whole(0))
         THEN TrueDiv(pe, Mul(growth_for_peg, Whole(100)))
    ELSE NaN

\* A plausible bug: the percent heuristic is dropped.
cm_debt_to_equity_raw(info) ==
    LET debt_to_equity == DictGetOr(info, "debtToEquity", NaN)
    IN IF NpIsNanRaises(debt_to_equity) THEN Exc ELSE debt_to_equity

\* debt_to_equity: values above 10 are read as percentages.
cm_debt_to_equity(info) ==
    LET debt_to_equity == DictGetOr(info, "debtToEquity", NaN)
    IN IF NpIsNanRaises(debt_to_equity) THEN Exc
       ELSE IF ~IsNaNv(debt_to_equity) /\ Gt(debt_to_equity, Whole(10))
            THEN TrueDiv(debt_to_equity, Whole(100))
       ELSE debt_to_equity

\* dividend_yield, with trailingAnnualDividendYield as its stand-in.
cm_dividend_yield(info) ==
    LET dividend_yield == DictGetOr(info, "dividendYield", NaN)
        trailing_yield == DictGetOr(info, "trailingAnnualDividendYield", NaN)
    IN IF NpIsNanRaises(dividend_yield) THEN Exc
       ELSE IF IsNaNv(dividend_yield)
            THEN IF NpIsNanRaises(trailing_yield) THEN Exc
                 ELSE IF ~IsNaNv(trailing_yield) THEN trailing_yield
                 ELSE dividend_yield
       ELSE dividend_yield

Raised == [raised |-> TRUE]

\* A plausible bug: a raising step is answered with an empty metrics dict.
compute_metrics_swallow(raw) == [raised |-> FALSE]

\* core/metrics.py compute_metrics.  The result is the nested metrics dict
\* (the descriptive strings of "meta" are left out), or Raised when one of
\* the np.isnan guards meets a None.
compute_metrics(raw) ==
    LET info == IF IsNoneDict(raw.info) THEN EmptyDict ELSE raw.info
        price == cm_price(info, raw.history)
        market_cap == cm_market_cap(info, price)
        enterprise_value == DictGet(info, "enterpriseValue")
        pe == cm_pe(info, market_cap)
        free_cash_flow == DictGet(info, "freeCashflow")
        rev_growth == DictGetOr(info, "revenueGrowth", NaN)
        earnings_growth == DictGetOr(info, "earningsGrowth", NaN)
        growth_for_peg == cm_growth_for_peg(earnings_growth, rev_growth)
        peg_ratio == cm_peg_ratio(pe, growth_for_peg)
        debt_to_equity == cm_debt_to_equity(info)
        dividend_yield == cm_dividend_yield(info)
    IN IF IsExc(growth_for_peg) \/ IsExc(peg_ratio) \/ IsExc(debt_to_equity)
          \/ IsExc(dividend_yield)
       THEN Raised
       ELSE [raised |-> FALSE,
             meta |-> [price |-> price, market_cap |-> market_cap,
                       enterprise_value |-> enterprise_value],
             valuation |-> [
                 pe |-> pe,
                 pb |-> DictGetOr(info, "priceToBook", NaN),
                 ev_ebitda |-> cm_ratio_if(enterprise_value, DictGet(info, "ebitda")),
                 ev_sales |-> cm_ratio_if(enterprise_value, DictGet(info, "totalRevenue")),
                 earnings_yield |-> cm_earnings_yield(pe),
                 fcf_yield |-> cm_ratio_if_both(free_cash_flow, market_cap),
                 peg |-> peg_ratio],
             quality |-> [
                 roe |-> DictGetOr(info, "returnOnEquity", NaN),
                 roa |-> DictGetOr(info, "returnOnAssets", NaN),
                 gross_margin |-> DictGetOr(info, "grossMargins", NaN),
                 op_margin |-> DictGetOr(info, "operatingMargins", NaN),
                 net_margin |-> DictGetOr(info, "profitMargins", NaN),
                 fcf_conversion |-> cm_ratio_if_both(free_cash_flow, cm_net_income(info))],
             growth |-> [
                 revenue_growth |-> rev_growth,
                 earnings_growth |-> earnings_growth],
             balance_sheet |-> [
                 debt_to_equity |-> debt_to_equity,
                 current_ratio |-> DictGetOr(info, "currentRatio", NaN),
                 quick_ratio |-> DictGetOr(info, "quickRatio", NaN),
                 interest_coverage |-> DictGetOr(info, "interestCoverage", NaN)],
             dividends |-> [
                 dividend_yield |-> dividend_yield,
                 payout_ratio |-> DictGetOr(info, "payoutRatio", NaN)]]

-----------------------------------------------------------------------------
(* profiles/investors.py: the checklist helpers.  A metrics dict is a      *)
(* function from the sections present to a section dict (or None).  The    *)
(* strings are the source's, with <=, >=, x, ~ and - for the non-ASCII     *)
(* signs; the formatted "value" column of a rule is left out.              *)

\* A plausible bug: a float() failure is not caught.
get_uncaught(metrics, section, key) ==
    LET sec == IF section \in DOMAIN metrics THEN metrics[section] ELSE EmptyDict
    IN IF IsNoneDict(sec) THEN Exc
       ELSE PyFloat(DictGetOr(sec, key, NaN))

\* _get: metrics.get(section, {}).get(key, nan), then float() under
\* try/except.  The two .get calls are outside the try: a section that is
\* None raises AttributeError.
get(metrics, section, key) ==
    LET sec == IF section \in DOMAIN metrics THEN metrics[section] ELSE EmptyDict
    IN IF IsNoneDict(sec) THEN Exc
       ELSE LET val == PyFloat(DictGetOr(sec, key, NaN))
            IN IF IsExc(val) THEN NaN ELSE val

\* A plausible bug: only None counts as missing.
is_nan_none_only(x) == IsNone(x)

\* _is_nan
is_nan(x) == IsNone(x) \/ IsNaNv(x)

\* _rule (without the formatted value)
rule(name, condition, status, comment) ==
    [name |-> name, condition |-> condition, status |-> status, comment |-> comment]

Count(rules, status) == Cardinality({i \in 1..Len(rules) : rules[i].status = status})

\* The three headline templates, as <<prefix, label, suffix>>.
Headline(kind, label) ==
    CASE kind = "very"  -> <<"Very ", label, "-friendly profile.">>
      [] kind = "mixed" -> <<"Mixed but somewhat ", label, "-compatible.">>
      [] kind = "not"   -> <<"Not a classic ", label, "-style candidate.">>

\* A plausible bug: the "very friendly" headline asks for three passes.
summary_from_rules_three(rules, label) ==
    LET passes == Count(rules, "pass")
        warns  == Count(rules, "warn")
        fails  == Count(rules, "fail")
    IN [passes |-> passes, warns |-> warns, fails |-> fails,
        headline |-> IF fails = 0 /\ passes >= 3 THEN Headline("very", label)
                     ELSE IF passes >= fails THEN Headline("mixed", label)
                     ELSE Headline("not", label)]

\* A plausible bug: "Mixed" asks for more passes than fails.
summary_from_rules_more_passes(rules, label) ==
    LET passes == Count(rules, "pass")
        warns  == Count(rules, "warn")
        fails  == Count(rules, "fail")
    IN [passes |-> passes, warns |-> warns, fails |-> fails,
        headline |-> IF fails = 0 /\ passes >= 4 THEN Headline("very", label)
                     ELSE IF passes > fails THEN Headline("mixed", label)
                     ELSE Headline("not", label)]

\* A plausible bug: "Very" is given when every rated rule passed.
summary_from_rules_all_passed(rules, label) ==
    LET passes == Count(rules, "pass")
        warns  == Count(rules, "warn")
        fails  == Count(rules, "fail")
    IN [passes |-> passes, warns |-> warns, fails |-> fails,
        headline |-> IF fails = 0 /\ warns = 0 /\ passes >= 1 THEN Headline("very", label)
                     ELSE IF passes >= fails THEN Headline("mixed", label)
                     ELSE Headline("not", label)]

\* _summary_from_rules
summary_from_rules(rules, label) ==
    LET passes == Count(rules, "pass")
        warns  == Count(rules, "warn")
        fails  == Count(rules, "fail")
    IN [passes |-> passes, warns |-> warns, fails |-> fails,
        headline |-> IF fails = 0 /\ passes >= 4 THEN Headline("very", label)
                     ELSE IF passes >= fails THEN Headline("mixed", label)
                     ELSE Headline("not", label)]

\* A plausible bug: the evaluation stops at the first failed rule, and the
\* rules after it are reported as not applicable.
Checklist_stop_at_fail(reads, rules, label) ==
    IF \E i \in 1..Len(reads) : IsExc(reads[i]) THEN Raised
    ELSE LET cut == [i \in 1..Len(rules) |->
                        IF \E j \in 1..(i - 1) : rules[j].status = "fail"
                        THEN [rules[i] EXCEPT !.status = "na"] ELSE rules[i]]
         IN [raised |-> FALSE, summary |-> summary_from_rules(cut, label), rules |-> cut]

\* What a rules_fn returns; Raised when one of its _get calls raised.
Checklist(reads, rules, label) ==
    IF \E i \in 1..Len(reads) : IsExc(reads[i]) THEN Raised
    ELSE [raised |-> FALSE, summary |-> summary_from_rules(rules, label), rules |-> rules]

\* A plausible bug: the tiers end strictly below their thresholds.
leverage_rule_strict(debt_to_equity, condition, passC, warnC, failC) ==
    IF is_nan(debt_to_equity)
    THEN rule("Leverage", condition, "na", "Leverage data missing.")
    ELSE IF Lt(debt_to_equity, Pct(50)) THEN rule("Leverage", condition, "pass", passC)
    ELSE IF Lt(debt_to_equity, Whole(1)) THEN rule("Leverage", condition, "warn", warnC)
    ELSE rule("Leverage", condition, "fail", failC)

\* The debt/equity rule shared by the profiles, each with its own strings.
leverage_rule(debt_to_equity, condition, passC, warnC, failC) ==
    IF is_nan(debt_to_equity)
    THEN rule("Leverage", condition, "na", "Leverage data missing.")
    ELSE IF Le(debt_to_equity, Pct(50)) THEN rule("Leverage", condition, "pass", passC)
    ELSE IF Le(debt_to_equity, Whole(1)) THEN rule("Leverage", condition, "warn", warnC)
    ELSE rule("Leverage", condition, "fail", failC)

\* graham_rules
graham_rules(metrics) ==
    LET pe == get(metrics, "valuation", "pe")
        pb == get(metrics, "valuation", "pb")
        debt_to_equity == get(metrics, "balance_sheet", "debt_to_equity")
        current_ratio == get(metrics, "balance_sheet", "current_ratio")
        r1 == IF is_nan(pe)
              THEN rule("P/E multiple", "P/E <= 15", "na", "P/E not available from Yahoo Finance.")
              ELSE IF Le(pe, Whole(15))
                   THEN rule("P/E multiple", "P/E <= 15", "pass", "Classic Graham low multiple.")
                   ELSE rule("P/E multiple", "P/E <= 15", "fail", "Above the classic Graham threshold.")
        r2 == IF is_nan(pb)
              THEN rule("Price to book", "P/B <= 1.5", "na", "Book value data missing.")
              ELSE IF Le(pb, Pct(150))
                   THEN rule("Price to book", "P/B <= 1.5", "pass", "Discount or near-discount to book.")
                   ELSE rule("Price to book", "P/B <= 1.5", "fail", "Above classic Graham P/B.")
        r3 == IF is_nan(pe) \/ is_nan(pb)
              THEN rule("Graham product", "P/E x P/B <= 22.5", "na", "Need both P/E and P/B to check this.")
              ELSE IF Le(Mul(pe, pb), Num(45, 2))
                   THEN rule("Graham product", "P/E x P/B <= 22.5", "pass", "")
                   ELSE rule("Graham product", "P/E x P/B <= 22.5", "fail", "")
        r4 == leverage_rule(debt_to_equity, "Debt/Equity <= 0.5", "Very conservative leverage.",
                            "Moderate leverage.", "High leverage for Graham style.")
        r5 == IF is_nan(current_ratio)
              THEN rule("Liquidity", "Current ratio >= 2.0", "na", "Liquidity data missing.")
              ELSE IF Ge(current_ratio, Whole(2))
                   THEN rule("Liquidity", "Current ratio >= 2.0", "pass", "Strong near-term liquidity.")
              ELSE IF Ge(current_ratio, Pct(150))
                   THEN rule("Liquidity", "Current ratio >= 2.0", "warn", "Acceptable but not ideal.")
              ELSE rule("Liquidity", "Current ratio >= 2.0", "fail", "Weak current ratio for Graham.")
    IN Checklist(<<pe, pb, debt_to_equity, current_ratio>>, <<r1, r2, r3, r4, r5>>, "Graham")

\* The ROE rule of Buffett, Smith and Fisher (four tiers).
roe_rule4(roe, name, c20, c15, c10, cFail) ==
    IF is_nan(roe) THEN rule(name, "ROE >= 15%", "na", "ROE not available.")
    ELSE IF Ge(roe, Pct(20)) THEN rule(name, "ROE >= 15%", "pass", c20)
    ELSE IF Ge(roe, Pct(15)) THEN rule(name, "ROE >= 15%", "pass", c15)
    ELSE IF Ge(roe, Pct(10)) THEN rule(name, "ROE >= 15%", "warn", c10)
    ELSE rule(name, "ROE >= 15%", "fail", cFail)

\* buffett_rules
buffett_rules(metrics) ==
    LET roe == get(metrics, "quality", "roe")
        gross_margin == get(metrics, "quality", "gross_margin")
        op_margin == get(metrics, "quality", "op_margin")
        fcf_conv == get(metrics, "quality", "fcf_conversion")
        debt_to_equity == get(metrics, "balance_sheet", "debt_to_equity")
        pe == get(metrics, "valuation", "pe")
        r1 == roe_rule4(roe, "Return on equity", "Excellent long-term profitability.",
                        "Good profitability.", "Okay, but not standout.",
                        "Low ROE for a Buffett compounder.")
        r2 == IF is_nan(gross_margin)
              THEN rule("Gross margin", "Gross margin >= 40%", "na", "Margin data missing.")
              ELSE IF Ge(gross_margin, Pct(40))
                   THEN rule("Gross margin", "Gross margin >= 40%", "pass", "Indicates pricing power and moat.")
                   ELSE rule("Gross margin", "Gross margin >= 40%", "warn", "Not obviously a high-moat margin.")
        r3 == IF is_nan(op_margin)
              THEN rule("Operating margin", "Operating margin >= 20%", "na", "Operating margin missing.")
              ELSE IF Ge(op_margin, Pct(20))
                   THEN rule("Operating margin", "Operating margin >= 20%", "pass", "Strong operating profitability.")
              ELSE IF Ge(op_margin, Pct(12))
                   THEN rule("Operating margin", "Operating margin >= 20%", "warn", "Decent but not elite.")
              ELSE rule("Operating margin", "Operating margin >= 20%", "fail", "Thin operating margin.")
        r4 == IF is_nan(fcf_conv)
              THEN rule("Cash conversion", "FCF / Net income ~ 80-120%", "na", "Cash-flow detail missing.")
              ELSE IF Le(Pct(80), fcf_conv) /\ Le(fcf_conv, Pct(120))
                   THEN rule("Cash conversion", "FCF / Net income ~ 80-120%", "pass", "Earnings are backed by cash.")
              ELSE IF Le(Pct(60), fcf_conv) /\ Le(fcf_conv, Pct(140))
                   THEN rule("Cash conversion", "FCF / Net income ~ 80-120%", "warn", "Okay but a bit noisy.")
              ELSE rule("Cash conversion", "FCF / Net income ~ 80-120%", "fail", "Earnings not reliably backed by cash.")
        r5 == leverage_rule(debt_to_equity, "Debt/Equity <= 0.5", "Very conservative balance sheet.",
                            "Moderate leverage.", "Heavy leverage for Buffett style.")
        r6 == IF is_nan(pe)
              THEN rule("Valuation", "P/E <= 20", "na", "P/E not available.")
              ELSE IF Le(pe, Whole(20))
                   THEN rule("Valuation", "P/E <= 20", "pass", "Reasonable price for quality.")
              ELSE IF Le(pe, Whole(30))
                   THEN rule("Valuation", "P/E <= 20", "warn", "Somewhat rich valuation.")
              ELSE rule("Valuation", "P/E <= 20", "fail", "Very expensive relative to earnings.")
    IN Checklist(<<roe, gross_margin, op_margin, fcf_conv, debt_to_equity, pe>>,
                 <<r1, r2, r3, r4, r5, r6>>, "Buffett")

\* lynch_rules
lynch_rules(metrics) ==
    LET pe == get(metrics, "valuation", "pe")
        peg == get(metrics, "valuation", "peg")
        rev_g == get(metrics, "growth", "revenue_growth")
        earn_g == get(metrics, "growth", "earnings_growth")
        debt_to_equity == get(metrics, "balance_sheet", "debt_to_equity")
        growth == IF ~is_nan(earn_g) THEN earn_g ELSE rev_g
        r1 == IF is_nan(growth)
              THEN rule("Growth rate", "Growth >= 10%", "na", "Growth data missing.")
              ELSE IF Ge(growth, Pct(20))
                   THEN rule("Growth rate", "Growth >= 10%", "pass", "Very strong growth.")
              ELSE IF Ge(growth, Pct(10))
                   THEN rule("Growth rate", "Growth >= 10%", "pass", "Solid, Lynch-style grower.")
              ELSE IF Ge(growth, Pct(5))
                   THEN rule("Growth rate", "Growth >= 10%", "warn", "Mild growth.")
              ELSE rule("Growth rate", "Growth >= 10%", "fail", "Low growth for Lynch-style idea.")
        r2 == IF is_nan(peg)
              THEN rule("PEG ratio", "PEG ~ 1.0", "na", "PEG can't be computed reliably.")
              ELSE IF Le(peg, Whole(1))
                   THEN rule("PEG ratio", "PEG ~ 1.0", "pass", "Classic Lynch PEG <= 1.")
              ELSE IF Le(peg, Pct(150))
                   THEN rule("PEG ratio", "PEG ~ 1.0", "warn", "PEG a bit high but maybe okay.")
              ELSE rule("PEG ratio", "PEG ~ 1.0", "fail", "PEG too high for GARP.")
        r3 == IF is_nan(pe)
              THEN rule("P/E guardrail", "P/E not extreme (<= 30)", "na", "P/E missing.")
              ELSE IF Le(pe, Whole(20))
                   THEN rule("P/E guardrail", "P/E not extreme (<= 30)", "pass", "Reasonable earnings multiple.")
              ELSE IF Le(pe, Whole(30))
                   THEN rule("P/E guardrail", "P/E not extreme (<= 30)", "warn", "Upper end of reasonable.")
              ELSE rule("P/E guardrail", "P/E not extreme (<= 30)", "fail", "Too expensive for Lynch-style GARP.")
        r4 == leverage_rule(debt_to_equity, "Debt/Equity <= 1.0", "Comfortable leverage for a grower.",
                            "Moderate leverage.", "High leverage for Lynch-style stock.")
    IN Checklist(<<pe, peg, rev_g, earn_g, debt_to_equity>>, <<r1, r2, r3, r4>>, "Lynch")

\* A plausible bug: the pass tier ends strictly below 8.
ev_ebitda_tiers_strict(ev_ebitda, passC, warnC, failC) ==
    IF Lt(ev_ebitda, Whole(8)) THEN rule("EV/EBITDA", "EV/EBITDA <= 10", "pass", passC)
    ELSE IF Le(ev_ebitda, Whole(10)) THEN rule("EV/EBITDA", "EV/EBITDA <= 10", "warn", warnC)
    ELSE rule("EV/EBITDA", "EV/EBITDA <= 10", "fail", failC)

\* The EV/EBITDA tiers shared by Greenblatt and Burry.
ev_ebitda_tiers(ev_ebitda, passC, warnC, failC) ==
    IF Le(ev_ebitda, Whole(8)) THEN rule("EV/EBITDA", "EV/EBITDA <= 10", "pass", passC)
    ELSE IF Le(ev_ebitda, Whole(10)) THEN rule("EV/EBITDA", "EV/EBITDA <= 10", "warn", warnC)
    ELSE rule("EV/EBITDA", "EV/EBITDA <= 10", "fail", failC)

\* greenblatt_rules
greenblatt_rules(metrics) ==
    LET earnings_yield == get(metrics, "valuation", "earnings_yield")
        ev_ebitda == get(metrics, "valuation", "ev_ebitda")
        roe == get(metrics, "quality", "roe")
        r1 == IF is_nan(earnings_yield)
              THEN rule("Earnings yield", "Earnings yield >= 8%", "na", "Earnings yield can't be computed.")
              ELSE IF Ge(earnings_yield, Pct(15))
                   THEN rule("Earnings yield", "Earnings yield >= 8%", "pass", "Very cheap on earnings.")
              ELSE IF Ge(earnings_yield, Pct(8))
                   THEN rule("Earnings yield", "Earnings yield >= 8%", "pass", "Cheap-ish on earnings.")
              ELSE rule("Earnings yield", "Earnings yield >= 8%", "fail", "Not cheap for Magic Formula.")
        r2 == IF is_nan(roe)
              THEN rule("Return on capital (ROE proxy)", "ROE >= 15%", "na", "ROE not available.")
              ELSE IF Ge(roe, Pct(20))
                   THEN rule("Return on capital (ROE proxy)", "ROE >= 15%", "pass", "Excellent return on capital.")
              ELSE IF Ge(roe, Pct(15))
                   THEN rule("Return on capital (ROE proxy)", "ROE >= 15%", "pass", "Good return on capital.")
              ELSE rule("Return on capital (ROE proxy)", "ROE >= 15%", "fail", "Weak ROC for Magic Formula.")
        r3 == IF is_nan(ev_ebitda)
              THEN rule("EV/EBITDA", "EV/EBITDA <= 10", "na", "EV/EBITDA missing.")
              ELSE ev_ebitda_tiers(ev_ebitda, "Multiple consistent with Magic Formula cheapness.",
                                   "Okay, not screaming cheap.", "Too expensive on EV/EBITDA.")
    IN Checklist(<<earnings_yield, ev_ebitda, roe>>, <<r1, r2, r3>>, "Greenblatt")

\* burry_rules
burry_rules(metrics) ==
    LET fcf_yield == get(metrics, "valuation", "fcf_yield")
        ev_ebitda == get(metrics, "valuation", "ev_ebitda")
        pe == get(metrics, "valuation", "pe")
        debt_to_equity == get(metrics, "balance_sheet", "debt_to_equity")
        r1 == IF is_nan(fcf_yield)
              THEN rule("FCF yield", "FCF yield >= 8-10%", "na", "Free cash flow data missing.")
              ELSE IF Ge(fcf_yield, Pct(10))
                   THEN rule("FCF yield", "FCF yield >= 8-10%", "pass", "Very cheap on cash flows.")
              ELSE IF Ge(fcf_yield, Pct(6))
                   THEN rule("FCF yield", "FCF yield >= 8-10%", "warn", "Cheap-ish on cash flows.")
              ELSE rule("FCF yield", "FCF yield >= 8-10%", "fail", "Not cheap on cash flows.")
        r2 == IF is_nan(ev_ebitda) /\ is_nan(pe)
              THEN rule("Valuation multiples", "EV/EBITDA <= 10 or P/E <= 12", "na", "Valuation multiples missing.")
              ELSE IF ~is_nan(ev_ebitda)
                   THEN ev_ebitda_tiers(ev_ebitda, "EV/EBITDA consistent with deep value.",
                                        "Okay but not extreme value.", "Rich on EV/EBITDA for Burry.")
              ELSE IF Le(pe, Whole(10))
                   THEN rule("P/E", "P/E <= 12", "pass", "Low P/E as backup value signal.")
              ELSE IF Le(pe, Whole(14))
                   THEN rule("P/E", "P/E <= 12", "warn", "Moderate P/E.")
              ELSE rule("P/E", "P/E <= 12", "fail", "High P/E for deep value.")
        r3 == leverage_rule(debt_to_equity, "Debt/Equity <= 1.0", "Very conservative balance sheet.",
                            "Manageable leverage.", "High leverage for a deep value idea.")
    IN Checklist(<<fcf_yield, ev_ebitda, pe, debt_to_equity>>, <<r1, r2, r3>>, "Burry")


\* smith_rules
smith_rules(metrics) ==
    LET roe == get(metrics, "quality", "roe")
        gross_margin == get(metrics, "quality", "gross_margin")
        net_margin == get(metrics, "quality", "net_margin")
        rev_g == get(metrics, "growth", "revenue_growth")
        debt_to_equity == get(metrics, "balance_sheet", "debt_to_equity")
        pe == get(metrics, "valuation", "pe")
        r1 == roe_rule4(roe, "ROE", "Very strong returns on capital.", "Good returns on capital.",
                        "Okay but not elite.", "Weak ROE for Smith-style compounders.")
        r2 == IF is_nan(gross_margin)
              THEN rule("Gross margin", "Gross margin >= 50%", "na", "Margin data missing.")
              ELSE IF Ge(gross_margin, Pct(50))
                   THEN rule("Gross margin", "Gross margin >= 50%", "pass", "High value-add / pricing power.")
              ELSE IF Ge(gross_margin, Pct(40))
                   THEN rule("Gross margin", "Gross margin >= 50%", "warn", "Okay but not top-tier.")
              ELSE rule("Gross margin", "Gross margin >= 50%", "fail", "Low gross margin for Smith-style quality.")
        r3 == IF is_nan(net_margin)
              THEN rule("Net margin", "Net margin >= 10%", "na", "Net margin missing.")
              ELSE IF Ge(net_margin, Pct(15))
                   THEN rule("Net margin", "Net margin >= 10%", "pass", "Very strong net margins.")
              ELSE IF Ge(net_margin, Pct(10))
                   THEN rule("Net margin", "Net margin >= 10%", "pass", "Healthy net margins.")
              ELSE IF Ge(net_margin, Pct(7))
                   THEN rule("Net margin", "Net margin >= 10%", "warn", "Okay margins.")
              ELSE rule("Net margin", "Net margin >= 10%", "fail", "Thin profitability.")
        r4 == IF is_nan(rev_g)
              THEN rule("Revenue growth", "Growth >= 5%", "na", "Growth data missing.")
              ELSE IF Ge(rev_g, Pct(10))
                   THEN rule("Revenue growth", "Growth >= 5%", "pass", "Solid top-line growth.")
              ELSE IF Ge(rev_g, Pct(5))
                   THEN rule("Revenue growth", "Growth >= 5%", "pass", "Reasonable growth.")
              ELSE IF Ge(rev_g, Whole(0))
                   THEN rule("Revenue growth", "Growth >= 5%", "warn", "Flat-ish revenue.")
              ELSE rule("Revenue growth", "Growth >= 5%", "fail", "Shrinking business.")
        r5 == leverage_rule(debt_to_equity, "Debt/Equity <= 0.5", "Balance sheet fits quality style.",
                            "Some leverage but manageable.", "Too much leverage for Smith style.")
        r6 == IF is_nan(pe)
              THEN rule("Valuation", "P/E <= 30", "na", "P/E not available.")
              ELSE IF Le(pe, Whole(25))
                   THEN rule("Valuation", "P/E <= 30-35", "pass", "Valuation broadly reasonable for quality.")
              ELSE IF Le(pe, Whole(35))
                   THEN rule("Valuation", "P/E <= 30-35", "warn", "Stretch valuation.")
              ELSE rule("Valuation", "P/E <= 30-35", "fail", "Very rich for Smith style.")
    IN Checklist(<<roe, gross_margin, net_margin, rev_g, debt_to_equity, pe>>,
                 <<r1, r2, r3, r4, r5, r6>>, "Smith-style quality")

\* dividend_rules
dividend_rules(metrics) ==
    LET div_yield == get(metrics, "dividends", "dividend_yield")
        payout == get(metrics, "dividends", "payout_ratio")
        fcf_yield == get(metrics, "valuation", "fcf_yield")
        debt_to_equity == get(metrics, "balance_sheet", "debt_to_equity")
        earnings_growth == get(metrics, "growth", "earnings_growth")
        r1 == IF is_nan(div_yield)
              THEN rule("Dividend yield", "Target 2-8%", "na", "Dividend yield not available.")
              ELSE IF Le(Pct(2), div_yield) /\ Le(div_yield, Pct(8))
                   THEN rule("Dividend yield", "Target 2-8%", "pass", "Comfortable income range.")
              ELSE IF Lt(div_yield, Pct(2))
                   THEN rule("Dividend yield", "Target 2-8%", "warn", "Low current yield.")
              ELSE rule("Dividend yield", "Target 2-8%", "warn", "Very high yield - check sustainability.")
        r2 == IF is_nan(payout)
              THEN rule("Payout ratio", "Payout <= 70%", "na", "Payout ratio not reported.")
              ELSE IF Le(payout, Pct(50))
                   THEN rule("Payout ratio", "Payout <= 70%", "pass", "Comfortable payout with room to reinvest.")
              ELSE IF Le(payout, Pct(70))
                   THEN rule("Payout ratio", "Payout <= 70%", "warn", "Upper end of comfortable.")
              ELSE rule("Payout ratio", "Payout <= 70%", "fail", "Very high payout ratio.")
        r3 == IF is_nan(fcf_yield)
              THEN rule("FCF yield", "FCF yield >= 0%", "na", "Free cash flow data missing.")
              ELSE IF Ge(fcf_yield, Pct(5))
                   THEN rule("FCF yield", "FCF yield >= 0%", "pass", "Strong cash backing for dividends.")
              ELSE IF Ge(fcf_yield, Whole(0))
                   THEN rule("FCF yield", "FCF yield >= 0%", "warn", "Thin cash backing.")
              ELSE rule("FCF yield", "FCF yield >= 0%", "fail", "Negative free cash flow.")
        r4 == leverage_rule(debt_to_equity, "Debt/Equity <= 1.0", "Conservative balance sheet.",
                            "Moderate leverage.", "High leverage for dividend safety.")
        r5 == IF is_nan(earnings_growth)
              THEN rule("Earnings growth", "Growth >= 0%", "na", "Earnings growth missing.")
              ELSE IF Ge(earnings_growth, Pct(5))
                   THEN rule("Earnings growth", "Growth >= 0%", "pass", "Growing earnings support dividend growth.")
              ELSE IF Ge(earnings_growth, Whole(0))
                   THEN rule("Earnings growth", "Growth >= 0%", "warn", "Flat earnings - watch closely.")
              ELSE rule("Earnings growth", "Growth >= 0%", "fail", "Shrinking earnings - risk to dividend.")
    IN Checklist(<<div_yield, payout, fcf_yield, debt_to_equity, earnings_growth>>,
                 <<r1, r2, r3, r4, r5>>, "dividend-investor")

\* fisher_rules
fisher_rules(metrics) ==
    LET roe == get(metrics, "quality", "roe")
        gross_margin == get(metrics, "quality", "gross_margin")
        op_margin == get(metrics, "quality", "op_margin")
        rev_g == get(metrics, "growth", "revenue_growth")
        debt_to_equity == get(metrics, "balance_sheet", "debt_to_equity")
        r1 == IF is_nan(rev_g)
              THEN rule("Revenue growth", "Growth >= 10%", "na", "Growth data missing.")
              ELSE IF Ge(rev_g, Pct(15))
                   THEN rule("Revenue growth", "Growth >= 10%", "pass", "Strong top-line growth.")
              ELSE IF Ge(rev_g, Pct(10))
                   THEN rule("Revenue growth", "Growth >= 10%", "pass", "Solid growth.")
              ELSE IF Ge(rev_g, Pct(5))
                   THEN rule("Revenue growth", "Growth >= 10%", "warn", "Mild growth.")
              ELSE rule("Revenue growth", "Growth >= 10%", "fail", "Low growth for Fisher-style idea.")
        r2 == roe_rule4(roe, "ROE", "High quality with strong ROE.", "Good ROE.", "Okay ROE.",
                        "Low ROE for quality growth.")
        r3 == IF is_nan(gross_margin)
              THEN rule("Gross margin", "Gross margin >= 40%", "na", "Margin data missing.")
              ELSE IF Ge(gross_margin, Pct(40))
                   THEN rule("Gross margin", "Gross margin >= 40%", "pass", "Indicates product strength.")
              ELSE IF Ge(gross_margin, Pct(30))
                   THEN rule("Gross margin", "Gross margin >= 40%", "warn", "Okay margin.")
              ELSE rule("Gross margin", "Gross margin >= 40%", "fail", "Low margin for quality growth.")
        r4 == IF is_nan(op_margin)
              THEN rule("Operating margin", "Operating margin >= 15%", "na", "Operating margin missing.")
              ELSE IF Ge(op_margin, Pct(20))
                   THEN rule("Operating margin", "Operating margin >= 15%", "pass", "Strong operating profitability.")
              ELSE IF Ge(op_margin, Pct(15))
                   THEN rule("Operating margin", "Operating margin >= 15%", "pass", "Healthy operating margin.")
              ELSE IF Ge(op_margin, Pct(10))
                   THEN rule("Operating margin", "Operating margin >= 15%", "warn", "Okay margin.")
              ELSE rule("Operating margin", "Operating margin >= 15%", "fail", "Weak operating margin.")
        r5 == leverage_rule(debt_to_equity, "Debt/Equity <= 0.5", "Conservative balance sheet.",
                            "Moderate leverage.", "High leverage for quality growth.")
    IN Checklist(<<rev_g, roe, gross_margin, op_margin, debt_to_equity>>,
                 <<r1, r2, r3, r4, r5>>, "Fisher-style growth")

\* ALL_PROFILES: the profile keys in registry order.
ALL_PROFILES == <<"graham", "buffett", "lynch", "greenblatt", "burry", "smith", "dividend", "fisher">>

ProfileKeys == {ALL_PROFILES[i] : i \in 1..Len(ALL_PROFILES)}

\* InvestorProfile.rules_fn of the profile with the given key.
rules_fn(key, metrics) ==
    CASE key = "graham"     -> graham_rules(metrics)
      [] key = "buffett"    -> buffett_rules(metrics)
      [] key = "lynch"      -> lynch_rules(metrics)
      [] key = "greenblatt" -> greenblatt_rules(metrics)
      [] key = "burry"      -> burry_rules(metrics)
      [] key = "smith"      -> smith_rules(metrics)
      [] key = "dividend"   -> dividend_rules(metrics)
      [] key = "fisher"     -> fisher_rules(metrics)


-----------------------------------------------------------------------------
(* Bounds of the checked instances.                                        *)

\* Numerators and denominators of the sample numbers range over -MaxInt..MaxInt.
MaxInt == 3
\* Longest list of raw keys handed to _coalesce_key.
MaxKeys == 3
\* Longest candidate list handed to _coalesce_key.
MaxCands == 2
\* Largest number of periods (columns) of a quarterly statement.
MaxPeriods == 5

SeqUpTo(S, n) == UNION {[1..k -> S] : k \in 0..n}

NoRet == [fn |-> "none"]
NoArgs == [fn |-> "none"]

\* The screener is not running.
ScreenerIdle ==
    /\ universe = <<>>
    /\ selected_profiles = <<>>
    /\ max_tickers = 0
    /\ work_i = 0
    /\ results_rows = <<>>

-----------------------------------------------------------------------------
(* Specification SpecSafeDiv: the two _safe_div helpers on sample values.  *)

DivVals == {None, NaN} \cup {Num(n, d) : n \in -MaxInt..MaxInt, d \in 1..MaxInt}

InitSafeDiv ==
    /\ pc = "call"
    /\ args \in [fn : {"_safe_div"}, n : DivVals, d : DivVals]
    /\ ret = NoRet
    /\ ScreenerIdle

\* metrics.py _safe_div(n, d)
CallSafeDiv ==
    /\ pc = "call" /\ args.fn = "_safe_div"
    /\ ret' = [fn |-> "metrics._safe_div", val |-> safe_div(args.n, args.d)]
    /\ pc' = "return"
    /\ UNCHANGED <<args, screenerVars>>

\* core/metrics.py _safe_div(a, b)
CallCoreSafeDiv ==
    /\ pc = "call" /\ args.fn = "_safe_div"
    /\ ret' = [fn |-> "core.metrics._safe_div", val |-> core_safe_div(args.n, args.d)]
    /\ pc' = "return"
    /\ UNCHANGED <<args, screenerVars>>

SpecSafeDiv == InitSafeDiv /\ [][CallSafeDiv \/ CallCoreSafeDiv]_vars

-----------------------------------------------------------------------------
(* Specification SpecCoalesce: _coalesce_key on lists of raw keys and      *)
(* candidates that differ in case and punctuation.                         *)

\* "EBIT", "Operating Income", "operating-income", "Total Revenue"
KeyPool == {<<"E","B","I","T">>, <<"O","p","e","r","a","t","i","n","g"," ","I","n","c","o","m","e">>, <<"o","p","e","r","a","t","i","n","g","-","i","n","c","o","m","e">>, <<"T","o","t","a","l"," ","R","e","v","e","n","u","e">>}

\* "Ebit", "OperatingIncome", "Net PPE"
CandPool == {<<"E","b","i","t">>, <<"O","p","e","r","a","t","i","n","g","I","n","c","o","m","e">>, <<"N","e","t"," ","P","P","E">>}

InitCoalesce ==
    /\ pc = "call"
    /\ args \in [fn : {"_coalesce_key"},
                 index_like : SeqUpTo(KeyPool, MaxKeys),
                 cands : SeqUpTo(CandPool, MaxCands)]
    /\ ret = NoRet
    /\ ScreenerIdle

\* _coalesce_key(index_like, *cands)
CallCoalesceKey ==
    /\ pc = "call" /\ args.fn = "_coalesce_key"
    /\ ret' = [fn |-> "_coalesce_key", val |-> coalesce_key(args.index_like, args.cands)]
    /\ pc' = "return"
    /\ UNCHANGED <<args, screenerVars>>

SpecCoalesce == InitCoalesce /\ [][CallCoalesceKey]_vars

-----------------------------------------------------------------------------
(* Specification SpecTtm: _ttm_sum and _mrq_value on one statement row.    *)

\* "Total Revenue", "Revenue", "TotalRevenue" (fetch_core_financials, revenue)
RevenueLabels == <<<<"T","o","t","a","l"," ","R","e","v","e","n","u","e">>,
        <<"R","e","v","e","n","u","e">>,
        <<"T","o","t","a","l","R","e","v","e","n","u","e">>>>

\* Row labels a provider may use: "Total Revenue", "TotalRevenue", "EBIT"
RowLabelPool == {<<"T","o","t","a","l"," ","R","e","v","e","n","u","e">>, <<"T","o","t","a","l","R","e","v","e","n","u","e">>, <<"E","B","I","T">>}

PeriodVals == {NaN, Whole(1), Whole(2)}

\* A statement with the given row, alone or below a "Cost Of Revenue" row,
\* which no revenue candidate matches.
Frame(lab, vals, second) ==
    IF second
    THEN [isNone |-> FALSE,
          index |-> <<<<"C","o","s","t"," ","O","f"," ","R","e","v","e","n","u","e">>, lab>>,
          rows |-> <<[i \in 1..Len(vals) |-> Whole(7)], vals>>]
    ELSE [isNone |-> FALSE, index |-> <<lab>>, rows |-> <<vals>>]

FrameSet ==
    {NoFrame, EmptyFrame} \cup
    {Frame(lab, vals, second) :
        lab \in RowLabelPool, vals \in SeqUpTo(PeriodVals, MaxPeriods), second \in BOOLEAN}

InitTtm ==
    /\ pc = "call"
    /\ args \in [fn : {"_ttm_sum"}, qdf : FrameSet, labels : {RevenueLabels}]
    /\ ret = NoRet
    /\ ScreenerIdle

\* _ttm_sum(qdf, *labels)
CallTtmSum ==
    /\ pc = "call" /\ args.fn = "_ttm_sum"
    /\ ret' = [fn |-> "_ttm_sum", val |-> ttm_sum(args.qdf, args.labels)]
    /\ pc' = "return"
    /\ UNCHANGED <<args, screenerVars>>

\* _mrq_value(qdf, *labels)
CallMrqValue ==
    /\ pc = "call" /\ args.fn = "_ttm_sum"
    /\ ret' = [fn |-> "_mrq_value", val |-> mrq_value(args.qdf, args.labels)]
    /\ pc' = "return"
    /\ UNCHANGED <<args, screenerVars>>

SpecTtm == InitTtm /\ [][CallTtmSum \/ CallMrqValue]_vars

-----------------------------------------------------------------------------
(* Claims about _safe_div, _coalesce_key, _ttm_sum and _mrq_value.         *)

Returned(fn) == pc = "return" /\ ret.fn = fn

\* C5: both _safe_div helpers answer NaN when the denominator is zero, None
\* or NaN or the numerator is None or NaN, never raise, and otherwise
\* return the quotient n / d (checked as result * d = n).
C5_SafeDivPolicy ==
    (pc = "return" /\ ret.fn \in {"metrics._safe_div", "core.metrics._safe_div"}) =>
        LET n == args.n
            d == args.d
            r == ret.val
        IN /\ ~IsExc(r)
           /\ IF PyEq0(d) \/ IsNone(d) \/ IsNaNv(d) \/ IsNone(n) \/ IsNaNv(n)
              THEN r = NaN
              ELSE IsNum(r) /\ r.num * d.num * n.den = n.num * d.den * r.den

\* C5 witness: a division of a number by zero has been answered with NaN.
C5_Witness ==
    /\ Returned("metrics._safe_div")
    /\ IsNum(args.n) /\ args.n.num # 0 /\ PyEq0(args.d)
    /\ ret.val = NaN

\* Two labels agree up to case and to the characters that are neither
\* letters nor digits.
SameLetter(c1, c2) ==
    \/ c1 = c2
    \/ c1 \in DOMAIN Alphabet.lowerOf /\ Alphabet.lowerOf[c1] = c2
    \/ c2 \in DOMAIN Alphabet.lowerOf /\ Alphabet.lowerOf[c2] = c1
IsAlnum(c) == c \in Alphabet.kept \/ c \in DOMAIN Alphabet.lowerOf
SameLabel(a, b) ==
    LET fa == SelectSeq(a, IsAlnum)
        fb == SelectSeq(b, IsAlnum)
    IN Len(fa) = Len(fb) /\ \A i \in 1..Len(fa) : SameLetter(fa[i], fb[i])

\* C10: _coalesce_key returns the raw key that matches the earliest
\* candidate matching any key (the first such key in index order), with
\* case- and punctuation-insensitive matching, and None when no candidate
\* matches any key.
C10_CoalesceCandidateOrder ==
    Returned("_coalesce_key") =>
        LET keys == args.index_like
            cands == args.cands
            r == ret.val
            Match(i, j) == SameLabel(cands[i], keys[j])
        IN IF \A i \in 1..Len(cands), j \in 1..Len(keys) : ~Match(i, j)
           THEN r = NoKey
           ELSE /\ r.found
                /\ \E i \in 1..Len(cands), j \in 1..Len(keys) :
                      /\ Match(i, j)
                      /\ r.key = keys[j]
                      /\ \A i2 \in 1..(i - 1), j2 \in 1..Len(keys) : ~Match(i2, j2)
                      /\ \A j2 \in 1..(j - 1) : ~Match(i, j2)

\* C10 witness: a key that comes first in the index matches a later
\* candidate, and the key of the earlier candidate was returned instead;
\* the returned key differs from its candidate in case or punctuation.
C10_Witness ==
    /\ Returned("_coalesce_key")
    /\ ret.val.found
    /\ Len(args.index_like) >= 2
    /\ ret.val.key # args.index_like[1]
    /\ \E i \in 1..Len(args.cands) : SameLabel(args.cands[i], args.index_like[1])
    /\ \A i \in 1..Len(args.cands) : args.cands[i] # ret.val.key

\* The row that a label list resolves to in a statement (the claim's
\* "resolved label"), as its index in the statement, 0 when none resolves.
ResolvedRow(qdf, labels) ==
    LET hit(i) == {j \in 1..Len(qdf.index) : SameLabel(labels[i], qdf.index[j])}
        is == {i \in 1..Len(labels) : hit(i) # {}}
    IN IF qdf.isNone \/ is = {} THEN 0 ELSE SetMin(hit(SetMin(is)))

\* C8 (as claimed): _ttm_sum is the sum of the values reported in the four
\* most recent periods of the resolved label and of no older period (NaN
\* when none of the four is reported), and NaN when no label resolves.
C8_TtmFourMostRecent ==
    Returned("_ttm_sum") =>
        LET j == ResolvedRow(args.qdf, args.labels)
        IN IF j = 0 THEN ret.val = NaN
           ELSE LET recent == dropna(ilocHead(args.qdf.rows[j], 4))
                IN ret.val = IF Len(recent) = 0 THEN NaN ELSE SumSeq(recent)

\* C9 (as claimed): _mrq_value is the value of the most recent period of
\* the resolved label, also when that value is missing, and NaN when no
\* label resolves or the statement has no period.
C9_MrqMostRecent ==
    Returned("_mrq_value") =>
        LET j == ResolvedRow(args.qdf, args.labels)
        IN IF j = 0 \/ Len(args.qdf.rows[j]) = 0 THEN ret.val = NaN
           ELSE ret.val = args.qdf.rows[j][1]

-----------------------------------------------------------------------------
(* Specification SpecMetrics: compute_metrics on raw snapshots in which a  *)
(* few info fields are present (with a number, NaN or None) and the rest   *)
(* absent, with or without a price history.                                *)

\* Largest number of raw inputs (info fields, price history) a snapshot holds.
MaxInfoFields == 2

InfoKeyPool ==
    {"trailingPE", "earningsGrowth", "revenueGrowth", "debtToEquity",
     "dividendYield", "trailingAnnualDividendYield", "marketCap",
     "netIncomeToCommon", "currentPrice", "sharesOutstanding",
     "freeCashflow", "enterpriseValue"}

InfoVals == {None, NaN, Whole(0), Num(-1, 10), Num(1, 10), Whole(20)}

HistoryPool == {<<>>, <<Whole(20), Whole(30)>>}

InitMetrics ==
    /\ pc = "call"
    /\ \E S \in SUBSET InfoKeyPool, history \in HistoryPool :
          /\ Cardinality(S) + Len(history) \div 2 <= MaxInfoFields
          /\ \E info \in [S -> InfoVals \cup {Whole(1), Whole(2), Whole(10), Num(1001, 100),
                                               Whole(1000), Num(100001, 100)}] :
                \* the values around the percent heuristic are debtToEquity's
                /\ \A k \in S \ {"debtToEquity"} : info[k] \in InfoVals
                /\ args = [fn |-> "compute_metrics",
                           raw |-> [info |-> info, history |-> history]]
    /\ ret = NoRet
    /\ ScreenerIdle

CallComputeMetrics ==
    /\ pc = "call"
    /\ args.fn = "compute_metrics"
    /\ ret' = [fn |-> "compute_metrics", val |-> compute_metrics(args.raw)]
    /\ pc' = "return"
    /\ UNCHANGED <<args, screenerVars>>

\* A profile is evaluated on the metrics just computed (app.py 119 and
\* 276: result = profile.rules_fn(metrics)).
CallRulesOnMetrics ==
    /\ pc = "return"
    /\ ret.fn = "compute_metrics"
    /\ ~ret.val.raised
    /\ \E key \in ProfileKeys :
          ret' = [fn |-> "rules_fn", key |-> key, metrics |-> ret.val,
                  val |-> rules_fn(key, ret.val)]
    /\ pc' = "rated"
    /\ UNCHANGED <<args, screenerVars>>

SpecMetrics == InitMetrics /\ [][CallComputeMetrics \/ CallRulesOnMetrics]_vars

\* C3 (as claimed): compute_metrics returns a metrics dictionary, and does
\* not raise, for every snapshot whose info fields are absent or None.
C3_ComputeMetricsNeverRaises ==
    Returned("compute_metrics") => ~ret.val.raised

\* The growth rate the claim selects: earnings growth if it is available,
\* revenue growth otherwise.
C6_SelectedGrowth(info) ==
    LET eg == DictGet(info, "earningsGrowth")
    IN IF IsNum(eg) THEN eg ELSE DictGet(info, "revenueGrowth")

\* C6 (as claimed): on snapshots in which no field other than the two
\* growth rates is None, compute_metrics delivers a null PEG whenever the
\* selected growth rate is <= 0, and PEG = P/E / (100 g) whenever the P/E
\* is a number and the selected growth rate g is > 0.
C6_PegPolicy ==
    (/\ Returned("compute_metrics")
     /\ \A f \in DOMAIN args.raw.info \ {"earningsGrowth", "revenueGrowth"} :
            ~IsNone(args.raw.info[f])) =>
        LET info == args.raw.info
            g == C6_SelectedGrowth(info)
            r == ret.val
        IN /\ (IsNum(g) /\ g.num <= 0) => (~r.raised /\ IsNaNv(r.valuation.peg))
           /\ (IsNum(g) /\ g.num > 0 /\ IsNum(DictGet(info, "trailingPE"))) =>
                 /\ ~r.raised
                 /\ IsNum(r.valuation.peg)
                 /\ r.valuation.peg.num * g.num * 100 * r.valuation.pe.den
                       = r.valuation.pe.num * r.valuation.peg.den * g.den

-----------------------------------------------------------------------------
(* Specification SpecRules: each profile's rules_fn on metrics dicts in    *)
(* which metrics are absent, None, NaN or numbers and a section may be     *)
(* absent or None.                                                         *)

\* Largest number of special inputs of a sparse metrics dict: metrics with
\* a value of the wide pool, and a section that is absent or None.
MaxMetrics == 2

Sections == {"valuation", "quality", "growth", "balance_sheet", "dividends"}

M(section, key) == <<section, key>>

\* The metrics each profile reads.
ProfileReads(key) ==
    CASE key = "graham" ->
            {M("valuation", "pe"), M("valuation", "pb"),
             M("balance_sheet", "debt_to_equity"), M("balance_sheet", "current_ratio")}
      [] key = "buffett" ->
            {M("quality", "roe"), M("quality", "gross_margin"), M("quality", "op_margin"),
             M("quality", "fcf_conversion"), M("balance_sheet", "debt_to_equity"),
             M("valuation", "pe")}
      [] key = "lynch" ->
            {M("valuation", "pe"), M("valuation", "peg"), M("growth", "revenue_growth"),
             M("growth", "earnings_growth"), M("balance_sheet", "debt_to_equity")}
      [] key = "greenblatt" ->
            {M("valuation", "earnings_yield"), M("valuation", "ev_ebitda"), M("quality", "roe")}
      [] key = "burry" ->
            {M("valuation", "fcf_yield"), M("valuation", "ev_ebitda"), M("valuation", "pe"),
             M("balance_sheet", "debt_to_equity")}
      [] key = "smith" ->
            {M("quality", "roe"), M("quality", "gross_margin"), M("quality", "net_margin"),
             M("growth", "revenue_growth"), M("balance_sheet", "debt_to_equity"),
             M("valuation", "pe")}
      [] key = "dividend" ->
            {M("dividends", "dividend_yield"), M("dividends", "payout_ratio"),
             M("valuation", "fcf_yield"), M("balance_sheet", "debt_to_equity"),
             M("growth", "earnings_growth")}
      [] key = "fisher" ->
            {M("growth", "revenue_growth"), M("quality", "roe"), M("quality", "gross_margin"),
             M("quality", "op_margin"), M("balance_sheet", "debt_to_equity")}

\* The metric values the checklists are run on.  wide: None, NaN and
\* numbers on both sides of the rules' thresholds; narrow: a value most
\* rules pass and a value most rules fail; threshold: values at and just
\* beyond the P/E and debt/equity thresholds (15; 0.5 and 1.0).
MetricVals ==
    [wide |-> {None, NaN, Num(-1, 10), Pct(9), Pct(70), Whole(9), Whole(40)},
     narrow |-> {Pct(45), Whole(50)},
     threshold |-> {NaN, Whole(-1), Pct(50), Pct(51), Whole(1), Pct(101),
                    Whole(15), Pct(1501), Whole(16)}]

\* The metrics dict with the given values; the section `odd` is left out
\* of the dict (how = "absent") or is None (how = "none").
MetricsDict(a, odd, how) ==
    [s \in (IF how = "absent" THEN Sections \ {odd} ELSE Sections) |->
        IF s = odd /\ how = "none" THEN None
        ELSE [k \in {m[2] : m \in {x \in DOMAIN a : x[1] = s}} |-> a[M(s, k)]]]

\* A plausible bug: _get takes the metric out of its section (dict.pop
\* where dict.get was meant).
metrics_after_get_pop(metrics, section, key) ==
    IF /\ section \in DOMAIN metrics
       /\ ~IsNoneDict(metrics[section])
       /\ key \in DOMAIN metrics[section]
    THEN [metrics EXCEPT
             ![section] = [k \in (DOMAIN metrics[section]) \ {key} |-> metrics[section][k]]]
    ELSE metrics

\* What a call of _get leaves of the caller's metrics dict: both lookups
\* are dict.get (investors.py 22), which inserts nothing for a missing
\* section or metric and removes nothing.
metrics_after_get(metrics, section, key) == metrics

\* The caller's metrics dict after the _get calls for the metrics in reads.
RECURSIVE metrics_after_reads(_, _)
metrics_after_reads(metrics, reads) ==
    IF reads = {} THEN metrics
    ELSE LET m == CHOOSE x \in reads : TRUE
         IN metrics_after_reads(metrics_after_get(metrics, m[1], m[2]), reads \ {m})

\* The caller's metrics dict after rules_fn(metrics): the dict is passed by
\* reference, and a rule function touches it through _get only; the list
\* the rules are appended to is created anew in every call.
metrics_after_rules_fn(key, metrics) == metrics_after_reads(metrics, ProfileReads(key))

\* Sparse dicts: a few metrics with wide values, the rest absent, possibly
\* with one odd section.  Dense dicts: every metric the profile reads is
\* absent or has a narrow value.
InitRules ==
    /\ pc = "call"
    /\ \E key \in ProfileKeys :
          \/ \E odd \in Sections \cup {"-"}, how \in {"absent", "none"} :
                /\ odd = "-" => how = "absent"
                /\ \E P \in SUBSET ProfileReads(key) :
                      /\ Cardinality(P) + (IF odd = "-" THEN 0 ELSE 1) <= MaxMetrics
                      /\ \E a \in [P -> MetricVals.wide] :
                            args = [fn |-> "rules_fn", key |-> key,
                                    metrics |-> MetricsDict(a, odd, how)]
          \/ \E P \in SUBSET ProfileReads(key) :
                \E a \in [P -> MetricVals.narrow] :
                    args = [fn |-> "rules_fn", key |-> key,
                            metrics |-> MetricsDict(a, "-", "absent")]
          \/ \E pe \in MetricVals.threshold, debt_to_equity \in MetricVals.threshold :
                args = [fn |-> "rules_fn", key |-> key,
                        metrics |-> [valuation |-> [pe |-> pe],
                                     balance_sheet |-> [debt_to_equity |-> debt_to_equity]]]
    /\ ret = NoRet
    /\ ScreenerIdle

\* rules_fn(metrics): the result, and the caller's dict as the call left it.
CallRulesFn ==
    /\ pc = "call"
    /\ args.fn = "rules_fn"
    /\ ret' = [fn |-> "rules_fn", val |-> rules_fn(args.key, args.metrics)]
    /\ args' = [args EXCEPT !.metrics = metrics_after_rules_fn(args.key, args.metrics)]
    /\ pc' = "return"
    /\ UNCHANGED screenerVars

\* The same profile is evaluated once more on the same dict, as the first
\* evaluation left it; the first result is kept beside the second.
CallRulesFnAgain ==
    /\ pc = "return"
    /\ ret.fn = "rules_fn"
    /\ ret' = [fn |-> "rules_fn", first |-> ret.val,
               val |-> rules_fn(args.key, args.metrics)]
    /\ args' = [args EXCEPT !.metrics = metrics_after_rules_fn(args.key, args.metrics)]
    /\ pc' = "rerun"
    /\ UNCHANGED screenerVars



\* C4 (as claimed): every rules_fn returns a result with a summary and a
\* rules list, and does not raise, whatever section or metric of the
\* metrics dict is absent or None.
C4_ChecklistNeverRaises ==
    Returned("rules_fn") =>
        /\ ~ret.val.raised
        /\ {"summary", "rules"} \subseteq DOMAIN ret.val

\* A metric resolved to null: its section or its key is absent from the
\* metrics dict, or its value is None or NaN.
ResolvedNull(metrics, m) ==
    \/ m[1] \notin DOMAIN metrics
    \/ m[2] \notin DOMAIN metrics[m[1]]
    \/ IsNone(metrics[m[1]][m[2]])
    \/ IsNaNv(metrics[m[1]][m[2]])

Every(S) == [need |-> "every", of |-> S]
Some(S) == [need |-> "some", of |-> S]

\* What each rule of each profile reads, in the order of the rules: a rule
\* needs every metric of its set (a single metric, or both factors of the
\* Graham product) or some metric of it (a metric and its stand-in).
RuleInputs(key) ==
    CASE key = "graham" ->
            << Every({M("valuation", "pe")}), Every({M("valuation", "pb")}),
               Every({M("valuation", "pe"), M("valuation", "pb")}),
               Every({M("balance_sheet", "debt_to_equity")}),
               Every({M("balance_sheet", "current_ratio")}) >>
      [] key = "buffett" ->
            << Every({M("quality", "roe")}), Every({M("quality", "gross_margin")}),
               Every({M("quality", "op_margin")}), Every({M("quality", "fcf_conversion")}),
               Every({M("balance_sheet", "debt_to_equity")}), Every({M("valuation", "pe")}) >>
      [] key = "lynch" ->
            << Some({M("growth", "earnings_growth"), M("growth", "revenue_growth")}),
               Every({M("valuation", "peg")}), Every({M("valuation", "pe")}),
               Every({M("balance_sheet", "debt_to_equity")}) >>
      [] key = "greenblatt" ->
            << Every({M("valuation", "earnings_yield")}), Every({M("quality", "roe")}),
               Every({M("valuation", "ev_ebitda")}) >>
      [] key = "burry" ->
            << Every({M("valuation", "fcf_yield")}),
               Some({M("valuation", "ev_ebitda"), M("valuation", "pe")}),
               Every({M("balance_sheet", "debt_to_equity")}) >>
      [] key = "smith" ->
            << Every({M("quality", "roe")}), Every({M("quality", "gross_margin")}),
               Every({M("quality", "net_margin")}), Every({M("growth", "revenue_growth")}),
               Every({M("balance_sheet", "debt_to_equity")}), Every({M("valuation", "pe")}) >>
      [] key = "dividend" ->
            << Every({M("dividends", "dividend_yield")}), Every({M("dividends", "payout_ratio")}),
               Every({M("valuation", "fcf_yield")}),
               Every({M("balance_sheet", "debt_to_equity")}),
               Every({M("growth", "earnings_growth")}) >>
      [] key = "fisher" ->
            << Every({M("growth", "revenue_growth")}), Every({M("quality", "roe")}),
               Every({M("quality", "gross_margin")}), Every({M("quality", "op_margin")}),
               Every({M("balance_sheet", "debt_to_equity")}) >>

\* The rule lacks what it reads.
InputsNull(metrics, inp) ==
    IF inp.need = "every"
    THEN \E m \in inp.of : ResolvedNull(metrics, m)
    ELSE \A m \in inp.of : ResolvedNull(metrics, m)

\* C2: in every checklist a profile returns, a rule whose metric(s)
\* resolved to null has status "na" and a non-empty comment (so it is
\* never "pass", "warn" or "fail").
C2_NullMetricIsNa ==
    (Returned("rules_fn") /\ ~ret.val.raised) =>
        LET inputs == RuleInputs(args.key)
            rules == ret.val.rules
        IN /\ Len(rules) = Len(inputs)
           /\ \A i \in 1..Len(rules) :
                 InputsNull(args.metrics, inputs[i]) =>
                     /\ rules[i].status = "na"
                     /\ rules[i].comment # ""

\* C2 witness: a returned checklist rates one rule "na" for a NaN metric
\* and rates another rule on a number.
C2_Witness ==
    /\ Returned("rules_fn") /\ ~ret.val.raised
    /\ \E i, j \in 1..Len(ret.val.rules) :
          /\ ret.val.rules[i].status = "na"
          /\ \E m \in RuleInputs(args.key)[i].of :
                /\ m[1] \in DOMAIN args.metrics
                /\ m[2] \in DOMAIN args.metrics[m[1]]
                /\ IsNaNv(args.metrics[m[1]][m[2]])
          /\ ret.val.rules[j].status \in {"pass", "warn", "fail"}

-----------------------------------------------------------------------------
(* app.py: the S&P 500 screener (tab 2).  A universe row is a ticker with  *)
(* what the provider does for it; the company, sector and industry columns *)
(* are copied through unchanged and are left out.  Tickers of the universe *)
(* are distinct, so within one run st.cache_data never answers a call.     *)

\* get_metrics_cached: fetch_ticker_data, then compute_metrics.
get_metrics_cached(up) ==
    LET raw == fetch_ticker_data(up)
    IN IF raw.raised THEN Raised ELSE compute_metrics(raw)

\* The three counts of one profile (all zero when its rules_fn raises).
profile_counts(key, metrics) ==
    LET res == rules_fn(key, metrics)
    IN IF res.raised THEN [passes |-> 0, warns |-> 0, fails |-> 0]
       ELSE [passes |-> res.summary.passes, warns |-> res.summary.warns,
             fails |-> res.summary.fails]

RECURSIVE SumOver(_, _)
SumOver(f, keys) == IF Len(keys) = 0 THEN 0 ELSE f[Head(keys)] + SumOver(f, Tail(keys))

\* A plausible bug: the pass rate is taken over passes and fails only.
row_of_totals_rated(ticker, t, profile_passes) ==
    LET total_rules == t[1] + t[2] + t[3]
    IN [Ticker |-> ticker, TotalPasses |-> t[1], TotalFails |-> t[3],
        TotalWarns |-> t[2], TotalRules |-> total_rules,
        PassRate |-> IF t[1] + t[3] > 0 THEN Num(t[1], t[1] + t[3]) ELSE NaN,
        ProfilePasses |-> profile_passes]

\* The row built from the totals t = <<passes, warns, fails>> (app.py 409-430).
row_of_totals(ticker, t, profile_passes) ==
    LET total_rules == t[1] + t[2] + t[3]
    IN [Ticker |-> ticker, TotalPasses |-> t[1], TotalFails |-> t[3],
        TotalWarns |-> t[2], TotalRules |-> total_rules,
        PassRate |-> IF total_rules > 0 THEN Num(t[1], total_rules) ELSE NaN,
        ProfilePasses |-> profile_passes]

\* The row the loop body builds for one ticker (app.py 387-430): the
\* counts of every selected profile are taken once and then summed.
row_dict(ticker, metrics, profiles) ==
    LET keys == {profiles[i] : i \in 1..Len(profiles)}
        rows == { row_of_totals(ticker,
                                <<SumOver([k \in keys |-> c[k].passes], profiles),
                                  SumOver([k \in keys |-> c[k].warns], profiles),
                                  SumOver([k \in keys |-> c[k].fails], profiles)>>,
                                [k \in keys |-> c[k].passes])
                  : c \in {[k \in keys |-> profile_counts(k, metrics)]} }
    IN CHOOSE r \in rows : TRUE

\* The choices offered to the multiselect.
ProfileChoices ==
    { <<>>, <<"graham", "buffett">>, <<"burry">>, <<"lynch", "greenblatt", "dividend">> }

\* The loop body after the metrics are there (app.py 387-430), on the
\* metrics of the rule-function calls: any selection of profiles, one row.
BuildRow ==
    /\ pc = "call"
    /\ args.fn = "rules_fn"
    /\ \E profiles \in ProfileChoices :
          ret' = [fn |-> "row_dict", profiles |-> profiles,
                  val |-> row_dict("AAA", args.metrics, profiles)]
    /\ pc' = "return"
    /\ UNCHANGED <<args, screenerVars>>

SpecRules == InitRules /\ [][CallRulesFn \/ CallRulesFnAgain \/ BuildRow]_vars

\* sort_values(by=["Pass Rate", "Total Passes"], ascending=False,
\* na_position="last"): a ranks strictly before b.
RanksBefore(a, b) ==
    IF IsNaNv(a.PassRate) /\ IsNaNv(b.PassRate) THEN a.TotalPasses > b.TotalPasses
    ELSE IF IsNaNv(a.PassRate) THEN FALSE
    ELSE IF IsNaNv(b.PassRate) THEN TRUE
    ELSE \/ Gt(a.PassRate, b.PassRate)
         \/ a.PassRate = b.PassRate /\ a.TotalPasses > b.TotalPasses

\* The sort is stable: a row goes behind every row it does not rank before.
RECURSIVE InsertRow(_, _)
InsertRow(sorted, r) ==
    IF Len(sorted) = 0 THEN <<r>>
    ELSE IF RanksBefore(r, Head(sorted)) THEN <<r>> \o sorted
    ELSE <<Head(sorted)>> \o InsertRow(Tail(sorted), r)

RECURSIVE sort_values(_)
sort_values(rows) ==
    IF Len(rows) = 0 THEN <<>>
    ELSE InsertRow(sort_values(SubSeq(rows, 1, Len(rows) - 1)), rows[Len(rows)])

\* round() of a non-negative rational to the nearest integer, ties to even.
RoundHalfEven(n, d) ==
    LET q == n \div d
        r == n % d
    IN IF 2 * r < d THEN q
       ELSE IF 2 * r > d THEN q + 1
       ELSE IF q % 2 = 0 THEN q ELSE q + 1

\* app.py _fmt_num(x, pct=True): a dash for None and NaN, else x * 100
\* printed with one decimal; the text is kept as its number of tenths.
fmt_num_pct(x) ==
    IF IsNone(x) \/ IsNaNv(x) THEN [text |-> "dash", tenths |-> 0]
    ELSE [text |-> "pct", tenths |-> RoundHalfEven(x.num * 1000, x.den)]

-----------------------------------------------------------------------------
(* Specification Spec: the screener run on small universes.                *)

\* Longest ticker universe.
MaxTickers == 3

TickerNames == <<"AAA", "BBB", "CCC", "DDD", "EEE">>

\* The provider fails totally: the info call and the history call raise.
TotalFailure == Upstream(TRUE, EmptyDict, TRUE, <<>>)

GoodInfo ==
    [trailingPE |-> Whole(12), priceToBook |-> Whole(1), debtToEquity |-> Whole(40),
     currentRatio |-> Pct(250), returnOnEquity |-> Pct(25), grossMargins |-> Pct(50),
     operatingMargins |-> Pct(25), earningsGrowth |-> Pct(12), revenueGrowth |-> Pct(8),
     marketCap |-> Whole(500), freeCashflow |-> Whole(50), netIncomeToCommon |-> Whole(45),
     enterpriseValue |-> Whole(800), ebitda |-> Whole(100), dividendYield |-> Pct(3)]

PoorInfo ==
    [trailingPE |-> Whole(40), priceToBook |-> Whole(5), debtToEquity |-> Whole(3),
     currentRatio |-> Pct(170), returnOnEquity |-> Pct(12), earningsGrowth |-> Num(-1, 10)]

\* What the provider may do for a ticker.
UpstreamPool ==
    { TotalFailure,
      Upstream(TRUE, EmptyDict, FALSE, <<Whole(20)>>),
      Upstream(FALSE, [trailingPE |-> Whole(12), debtToEquity |-> None], FALSE, <<Whole(20)>>),
      Upstream(FALSE, GoodInfo, FALSE, <<Whole(20)>>),
      Upstream(FALSE, PoorInfo, FALSE, <<>>) }

Init ==
    /\ pc = "idle"
    /\ args = NoArgs
    /\ ret = NoRet
    /\ \E n \in 1..MaxTickers : \E ups \in [1..n -> UpstreamPool] :
          universe = [i \in 1..n |-> [Ticker |-> TickerNames[i], up |-> ups[i]]]
    /\ selected_profiles = <<>>
    /\ max_tickers = 0
    /\ work_i = 0
    /\ results_rows = <<>>

\* A plausible bug: the whole universe is processed.
work_df_all == universe

\* work_df = sp500_df.head(max_tickers)
work_df == SubSeq(universe, 1, IF max_tickers < Len(universe) THEN max_tickers ELSE Len(universe))

\* "Run Screener" pressed (app.py 360-373): without a profile the run
\* stops with an error, else the loop is set up.
RunScreener ==
    /\ pc = "idle"
    /\ \E labels \in ProfileChoices, m \in 1..Len(universe) :
          /\ max_tickers' = m
          /\ selected_profiles' = labels
          /\ pc' = IF Len(labels) = 0 THEN "stopped_no_profiles" ELSE "loop"
    /\ work_i' = 0
    /\ results_rows' = <<>>
    /\ UNCHANGED <<args, ret, universe>>

\* One iteration of the loop (app.py 375-435): the ticker is skipped when
\* get_metrics_cached raises, else its row is appended.
ScreenTicker ==
    /\ pc = "loop"
    /\ work_i < Len(work_df)
    /\ \E row \in {work_df[work_i + 1]} :
          \E metrics \in {get_metrics_cached(row.up)} :
              results_rows' =
                  IF metrics.raised THEN results_rows
                  ELSE Append(results_rows, row_dict(row.Ticker, metrics, selected_profiles))
    /\ work_i' = work_i + 1
    /\ UNCHANGED <<pc, args, ret, universe, selected_profiles, max_tickers>>

\* After the loop (app.py 437-456): no rows stops the run with an error,
\* else the rows are sorted and the pass rate is formatted.
FinishScreener ==
    /\ pc = "loop"
    /\ work_i = Len(work_df)
    /\ IF Len(results_rows) = 0
       THEN pc' = "stopped_no_results" /\ UNCHANGED results_rows
       ELSE /\ pc' = "done"
            /\ results_rows' =
                  LET sorted == sort_values(results_rows)
                  IN [i \in 1..Len(sorted) |->
                         [sorted[i] EXCEPT !.PassRate = fmt_num_pct(sorted[i].PassRate)]]
    /\ UNCHANGED <<args, ret, universe, selected_profiles, max_tickers, work_i>>

Next == RunScreener \/ ScreenTicker \/ FinishScreener

Spec == Init /\ [][Next]_vars

\* The script runs on once the button is pressed: while entries are left
\* the loop takes its next iteration (the step of ScreenTicker), and after
\* the last one the code behind the loop runs (the step of
\* FinishScreener).  The two steps are named by their guard and by what
\* they do to the position of the run.
SpecLoop ==
    /\ Spec
    /\ WF_<<pc, work_i>>(/\ pc = "loop" /\ work_i < Len(work_df)
                         /\ pc' = pc /\ work_i' = work_i + 1)
    /\ WF_<<pc, work_i>>(/\ pc = "loop" /\ work_i = Len(work_df)
                         /\ pc' \in {"done", "stopped_no_results"} /\ work_i' = work_i)

\* The universe rows of the run whose provider failed totally.
FailedTickers == {work_df[i].Ticker : i \in {j \in 1..Len(work_df) : work_df[j].up = TotalFailure}}

ResultTickers == {results_rows[i].Ticker : i \in 1..Len(results_rows)}

\* C1 (as claimed): a run ends without a batch-level exception, no row of
\* its result table belongs to a ticker whose provider failed totally, and
\* when only one of the N tickers failed so and the provider delivered
\* an info without None fields for the others, the table has N - 1 rows.
C1_FailedTickerSkipped ==
    pc \in {"done", "stopped_no_results"} =>
        /\ ResultTickers \cap FailedTickers = {}
        /\ (/\ Cardinality(FailedTickers) = 1
            /\ \A i \in 1..Len(work_df) :
                  \/ work_df[i].up = TotalFailure
                  \/ /\ ~work_df[i].up.infoRaises
                     /\ \A f \in DOMAIN work_df[i].up.info : ~IsNone(work_df[i].up.info[f]))
              => Len(results_rows) = Len(work_df) - 1

-----------------------------------------------------------------------------
(* metrics.py: the provider-facing helpers of fetch_core_financials.  A    *)
(* ticker object t holds what yfinance would answer: fast_info (a dict or  *)
(* None), info (a dict, or a property that raises), the Close values of    *)
(* its 5-day history, the SharesOutstanding column of get_shares_full (or  *)
(* a call that raises), its DataFrame attributes, and the recent closes of *)
(* the two FX tickers _fx_rate would ask for.                              *)

\* getattr(t, "info", {}) or {} inside a try: Raised when the property raises.
info_of(t) == IF t.infoRaises THEN Raised ELSE [raised |-> FALSE, d |-> t.info]

\* `if fi:` for fast_info: None and the empty dict are falsy.
FastInfoTruthy(fi) == ~IsNoneDict(fi) /\ DOMAIN fi # {}

\* The first x of xs that qualifies, as <<x>>, else <<>>; hits are the
\* positions of the qualifying items.
FirstWhere(xs, hits) ==
    IF hits = {} THEN <<>> ELSE <<xs[SetMin(hits)]>>

\* _get_df: the first named attribute that is a non-empty DataFrame, else
\* an empty DataFrame.
get_df(t, names) ==
    LET hit == FirstWhere(names, {i \in 1..Len(names) :
                                     /\ names[i] \in DOMAIN t.attrs
                                     /\ ~t.attrs[names[i]].isNone
                                     /\ ~FrameEmpty(t.attrs[names[i]])})
    IN IF Len(hit) = 0 THEN EmptyFrame ELSE t.attrs[hit[1]]

\* The history fallback of _recent_close: the last Close that is not NaN.
recent_close_history(closes) ==
    LET s == dropna(closes)
    IN IF Len(s) = 0 THEN NaN ELSE s[Len(s)]

\* A plausible bug: the history is preferred over fast_info.
recent_close_history_first(fi, closes) ==
    IF Len(dropna(closes)) > 0 THEN recent_close_history(closes)
    ELSE DictGetOr(IF IsNoneDict(fi) THEN EmptyDict ELSE fi, "last_price", NaN)

\* _recent_close: fast_info's last price under one of three names, else
\* the history.
recent_close(fi, closes) ==
    LET keys == <<"last_price", "regularMarketPrice", "regular_market_price">>
        hit == FirstWhere(keys, {i \in 1..Len(keys) :
                                    /\ FastInfoTruthy(fi)
                                    /\ keys[i] \in DOMAIN fi
                                    /\ ~IsNone(fi[keys[i]])})
    IN IF Len(hit) > 0 THEN fi[hit[1]] ELSE recent_close_history(closes)

\* v > 0 and not math.isnan(v), for a v that is not None
Positive(v) == IsNum(v) /\ v.num > 0

\* The labels of the average-shares fallback.
SharesLabels ==
    <<<<"D","i","l","u","t","e","d"," ","A","v","e","r","a","g","e"," ","S","h","a","r","e","s">>, <<"W","e","i","g","h","t","e","d"," ","A","v","e","r","a","g","e"," ","S","h","a","r","e","s"," ","D","i","l","u","t","e","d">>, <<"W","e","i","g","h","t","e","d"," ","A","v","e","r","a","g","e"," ","S","h","s"," ","O","u","t"," ","D","i","l">>, <<"W","e","i","g","h","t","e","d"," ","A","v","e","r","a","g","e"," ","S","h","a","r","e","s">>, <<"B","a","s","i","c"," ","A","v","e","r","a","g","e"," ","S","h","a","r","e","s">>, <<"W","e","i","g","h","t","e","d"," ","A","v","e","r","a","g","e"," ","S","h","s"," ","O","u","t">>>>

\* _shares_outstanding_robust: info, fast_info, get_shares_full, then the
\* average shares of the income statement; the first positive value.
shares_outstanding_robust(t, q_is) ==
    LET inf == info_of(t)
        so == IF inf.raised THEN None ELSE DictGet(inf.d, "sharesOutstanding")
        fi == t.fast_info
        fikeys == <<"shares", "shares_outstanding">>
        fiv == FirstWhere(fikeys, {i \in 1..Len(fikeys) :
                                      /\ FastInfoTruthy(fi)
                                      /\ fikeys[i] \in DOMAIN fi
                                      /\ ~IsNone(fi[fikeys[i]])
                                      /\ Positive(fi[fikeys[i]])})
        full == IF t.sharesFullRaises THEN <<>> ELSE dropna(t.shares_full)
        lab == IF q_is.isNone \/ FrameEmpty(q_is) THEN NoKey
               ELSE coalesce_key(q_is.index, SharesLabels)
        avg == IF lab.found /\ Len(lab.key) > 0 THEN dropna(Loc(q_is, lab.key)) ELSE <<>>
    IN IF ~IsNone(so) /\ Positive(so) THEN so
       ELSE IF Len(fiv) > 0 THEN fi[fiv[1]]
       ELSE IF Len(full) > 0 /\ Positive(full[Len(full)]) THEN full[Len(full)]
       ELSE IF Len(avg) > 0 /\ Positive(avg[1]) THEN avg[1]
       ELSE NaN

\* A plausible bug: info.marketCap is asked before fast_info.market_cap.
market_cap_robust_info_first(t, q_is) ==
    LET fi == t.fast_info
        a == IF FastInfoTruthy(fi) THEN DictGet(fi, "market_cap") ELSE None
        inf == info_of(t)
        b == IF inf.raised THEN None ELSE DictGet(inf.d, "marketCap")
        c == Mul(PyFloat(recent_close(fi, t.closes)), PyFloat(shares_outstanding_robust(t, q_is)))
    IN IF ~IsNone(b) /\ Positive(b) THEN b
       ELSE IF ~IsNone(a) /\ Positive(a) THEN a
       ELSE IF Positive(c) THEN c
       ELSE NaN

\* _market_cap_robust: fast_info.market_cap, then info.marketCap, then
\* price x shares; the first positive value, else NaN.
market_cap_robust(t, q_is) ==
    LET fi == t.fast_info
        a == IF FastInfoTruthy(fi) THEN DictGet(fi, "market_cap") ELSE None
        inf == info_of(t)
        b == IF inf.raised THEN None ELSE DictGet(inf.d, "marketCap")
        c == Mul(PyFloat(recent_close(fi, t.closes)), PyFloat(shares_outstanding_robust(t, q_is)))
    IN IF ~IsNone(a) /\ Positive(a) THEN a
       ELSE IF ~IsNone(b) /\ Positive(b) THEN b
       ELSE IF Positive(c) THEN c
       ELSE NaN

\* x or default, for a currency name; a name that is None or empty is "".
StrOr(x, default) == IF x = "" THEN default ELSE x
StrGet(d, key, default) == IF key \in DOMAIN d THEN d[key] ELSE default

\* _currencies: (market currency, financial-statement currency), "USD"
\* where the provider names none.
currencies(t) ==
    LET fi == t.fast_info
        m0 == IF FastInfoTruthy(fi) THEN StrOr(StrGet(fi, "currency", ""), "USD") ELSE "USD"
        inf == info_of(t)
    IN IF inf.raised THEN <<m0, "USD">>
       ELSE <<StrOr(StrGet(inf.d, "currency", m0), m0),
              StrOr(StrGet(inf.d, "financialCurrency", "USD"), "USD")>>

\* `if p and not math.isnan(p)` for a recent close
UsableRate(p) == IsNum(p) /\ p.num # 0

\* A plausible bug: the inverse pair's quote is used as it is.
fx_rate_no_invert(t, from_ccy, to_ccy) ==
    IF from_ccy = "" \/ to_ccy = "" \/ from_ccy = to_ccy THEN Whole(1)
    ELSE IF UsableRate(t.fx_pair) THEN t.fx_pair
    ELSE IF UsableRate(t.fx_inv) THEN t.fx_inv
    ELSE Whole(1)

\* _fx_rate: the quote of the pair FROM/TO, else the inverse of the quote
\* of TO/FROM, else 1.
fx_rate(t, from_ccy, to_ccy) ==
    IF from_ccy = "" \/ to_ccy = "" \/ from_ccy = to_ccy THEN Whole(1)
    ELSE IF UsableRate(t.fx_pair) THEN t.fx_pair
    ELSE IF UsableRate(t.fx_inv) THEN TrueDiv(Whole(1), t.fx_inv)
    ELSE Whole(1)

\* _conv: x * fx, NaN for a NaN (or unusable) x.
conv(x, fx) ==
    LET r == IF IsNone(x) THEN Exc ELSE IF IsNaNv(x) THEN NaN ELSE Mul(x, PyFloat(fx))
    IN IF IsExc(r) THEN NaN ELSE r

-----------------------------------------------------------------------------
(* metrics.py: fetch_core_financials and the ratios derived from it.       *)

\* The attribute names under which each quarterly statement is looked up.
StatementAttrs ==
    [income |-> <<"quarterly_income_stmt", "quarterly_income_statement", "quarterly_income",
                  "quarterly_financials">>,
     balance |-> <<"quarterly_balance_sheet", "quarterly_balancesheet", "quarterly_balance",
                   "quarterly_balance_sheet">>,
     cashflow |-> <<"quarterly_cashflow", "quarterly_cash_flow",
                    "quarterly_cashflow_statement">>]

\* The candidate labels of each canonical field, in the order they are tried.
Cands ==
    [revenue |-> RevenueLabels,
     ebit |-> <<<<"E","B","I","T">>, <<"E","b","i","t">>, <<"O","p","e","r","a","t","i","n","g"," ","I","n","c","o","m","e">>, <<"O","p","e","r","a","t","i","n","g","I","n","c","o","m","e">>>>,
     dep |-> <<<<"D","e","p","r","e","c","i","a","t","i","o","n"," ","A","n","d"," ","A","m","o","r","t","i","z","a","t","i","o","n">>, <<"D","e","p","r","e","c","i","a","t","i","o","n">>, <<"D","e","p","r","e","c","i","a","t","i","o","n"," ","&"," ","A","m","o","r","t","i","z","a","t","i","o","n">>, <<"R","e","c","o","n","c","i","l","e","d"," ","D","e","p","r","e","c","i","a","t","i","o","n">>>>,
     ebitda |-> <<<<"E","B","I","T","D","A">>, <<"E","b","i","t","d","a">>, <<"E","B","I","T","D","A"," ","(","t","t","m",")">>>>,
     cfo |-> <<<<"T","o","t","a","l"," ","C","a","s","h"," ","F","r","o","m"," ","O","p","e","r","a","t","i","n","g"," ","A","c","t","i","v","i","t","i","e","s">>, <<"O","p","e","r","a","t","i","n","g"," ","C","a","s","h"," ","F","l","o","w">>, <<"O","p","e","r","a","t","i","n","g","C","a","s","h","F","l","o","w">>, <<"N","e","t","C","a","s","h","P","r","o","v","i","d","e","d","B","y","O","p","e","r","a","t","i","n","g","A","c","t","i","v","i","t","i","e","s">>, <<"N","e","t"," ","C","a","s","h"," ","P","r","o","v","i","d","e","d"," ","B","y"," ","O","p","e","r","a","t","i","n","g"," ","A","c","t","i","v","i","t","i","e","s">>>>,
     capex |-> <<<<"C","a","p","i","t","a","l"," ","E","x","p","e","n","d","i","t","u","r","e","s">>, <<"C","a","p","i","t","a","l"," ","E","x","p","e","n","d","i","t","u","r","e">>, <<"P","u","r","c","h","a","s","e"," ","O","f"," ","P","r","o","p","e","r","t","y"," ","A","n","d"," ","E","q","u","i","p","m","e","n","t">>, <<"P","u","r","c","h","a","s","e","s"," ","O","f"," ","P","r","o","p","e","r","t","y"," ","A","n","d"," ","E","q","u","i","p","m","e","n","t">>, <<"I","n","v","e","s","t","m","e","n","t"," ","I","n"," ","P","r","o","p","e","r","t","y"," ","P","l","a","n","t"," ","A","n","d"," ","E","q","u","i","p","m","e","n","t">>, <<"I","n","v","e","s","t","m","e","n","t","s"," ","I","n"," ","P","r","o","p","e","r","t","y"," ","P","l","a","n","t"," ","A","n","d"," ","E","q","u","i","p","m","e","n","t">>, <<"A","d","d","i","t","i","o","n","s"," ","T","o"," ","P","r","o","p","e","r","t","y"," ","P","l","a","n","t"," ","A","n","d"," ","E","q","u","i","p","m","e","n","t">>>>,
     total_debt |-> <<<<"T","o","t","a","l"," ","D","e","b","t">>, <<"T","o","t","a","l","D","e","b","t">>>>,
     long_debt |-> <<<<"L","o","n","g"," ","T","e","r","m"," ","D","e","b","t">>, <<"L","o","n","g","T","e","r","m","D","e","b","t">>, <<"L","o","n","g"," ","T","e","r","m"," ","D","e","b","t"," ","N","o","n","c","u","r","r","e","n","t">>>>,
     short_debt |-> <<<<"S","h","o","r","t"," ","L","o","n","g"," ","T","e","r","m"," ","D","e","b","t">>, <<"S","h","o","r","t","T","e","r","m","D","e","b","t">>, <<"C","u","r","r","e","n","t"," ","D","e","b","t">>, <<"C","u","r","r","e","n","t"," ","P","o","r","t","i","o","n"," ","O","f"," ","L","o","n","g"," ","T","e","r","m"," ","D","e","b","t">>>>,
     cash |-> <<<<"C","a","s","h"," ","A","n","d"," ","C","a","s","h"," ","E","q","u","i","v","a","l","e","n","t","s">>, <<"C","a","s","h">>, <<"C","a","s","h","A","n","d","C","a","s","h","E","q","u","i","v","a","l","e","n","t","s">>>>,
     equity |-> <<<<"T","o","t","a","l"," ","S","t","o","c","k","h","o","l","d","e","r"," ","E","q","u","i","t","y">>, <<"S","t","o","c","k","h","o","l","d","e","r","s"," ","E","q","u","i","t","y">>, <<"T","o","t","a","l"," ","E","q","u","i","t","y"," ","G","r","o","s","s"," ","M","i","n","o","r","i","t","y"," ","I","n","t","e","r","e","s","t">>, <<"t","o","t","a","l","S","t","o","c","k","h","o","l","d","e","r","s","E","q","u","i","t","y">>>>,
     cur_assets |-> <<<<"T","o","t","a","l"," ","C","u","r","r","e","n","t"," ","A","s","s","e","t","s">>, <<"C","u","r","r","e","n","t"," ","A","s","s","e","t","s">>, <<"C","u","r","r","e","n","t","A","s","s","e","t","s">>>>,
     cur_liab |-> <<<<"T","o","t","a","l"," ","C","u","r","r","e","n","t"," ","L","i","a","b","i","l","i","t","i","e","s">>, <<"C","u","r","r","e","n","t"," ","L","i","a","b","i","l","i","t","i","e","s">>, <<"C","u","r","r","e","n","t","L","i","a","b","i","l","i","t","i","e","s">>>>,
     std |-> <<<<"S","h","o","r","t"," ","L","o","n","g"," ","T","e","r","m"," ","D","e","b","t">>, <<"S","h","o","r","t","T","e","r","m","D","e","b","t">>, <<"C","u","r","r","e","n","t"," ","D","e","b","t">>>>,
     net_ppe |-> <<<<"P","r","o","p","e","r","t","y"," ","P","l","a","n","t"," ","E","q","u","i","p","m","e","n","t"," ","N","e","t">>, <<"N","e","t"," ","P","P","E">>, <<"P","P","E","N","e","t">>, <<"N","e","t","P","r","o","p","e","r","t","y","P","l","a","n","t","A","n","d","E","q","u","i","p","m","e","n","t">>>>,
     pretax |-> <<<<"I","n","c","o","m","e"," ","B","e","f","o","r","e"," ","T","a","x">>, <<"P","r","e","t","a","x"," ","I","n","c","o","m","e">>, <<"I","n","c","o","m","e"," ","B","e","f","o","r","e"," ","I","n","c","o","m","e"," ","T","a","x","e","s">>>>,
     tax |-> <<<<"I","n","c","o","m","e"," ","T","a","x"," ","E","x","p","e","n","s","e">>, <<"P","r","o","v","i","s","i","o","n"," ","F","o","r"," ","I","n","c","o","m","e"," ","T","a","x","e","s">>>>]

\* 0.0 if math.isnan(x) else x
ZeroIfNaN(x) == IF IsNaNv(x) THEN Whole(0) ELSE x

MinV(a, b) == IF Lt(b, a) THEN b ELSE a
MaxV(a, b) == IF Gt(b, a) THEN b ELSE a

\* The tax rate estimate (metrics.py 281-290): tax / |pretax| clamped to
\* [0, 0.35] when |pretax| > 0 and the tax expense is known, else NaN.
tax_rate_est(pretax_fc, tax_fc) ==
    LET base == AbsV(pretax_fc)
    IN IF Gt(base, Whole(0)) /\ ~IsNaNv(tax_fc)
       THEN MaxV(Whole(0), MinV(Pct(35), TrueDiv(tax_fc, base)))
       ELSE NaN

\* A plausible bug: capex is combined as the provider reports it.
capex_as_reported(capex0) == capex0

\* CapEx normalised to an outflow (metrics.py 223-225): -|capex|.
capex_normalized(capex0) == IF ~IsNaNv(capex0) THEN Neg(AbsV(capex0)) ELSE capex0

\* A plausible bug: a missing debt or cash is not counted as zero.
enterprise_value_strict(t, mc, total_debt, cash) ==
    LET inf == info_of(t)
        ev_info == IF inf.raised THEN Exc
                   ELSE PyFloat(DictGetOr(inf.d, "enterpriseValue", NaN))
        ev == Sub(Add(mc, total_debt), cash)
    IN IF ~IsNaNv(ev) THEN ev
       ELSE IF IsNum(ev_info) THEN ev_info
       ELSE NaN

\* EV (metrics.py 269-279): market cap + debt - cash with a missing debt
\* or cash as 0, else info.enterpriseValue, else NaN.
enterprise_value(t, mc, total_debt, cash) ==
    LET inf == info_of(t)
        ev_info == IF inf.raised THEN Exc
                   ELSE PyFloat(DictGetOr(inf.d, "enterpriseValue", NaN))
    IN IF ~IsNaNv(mc) THEN Sub(Add(mc, ZeroIfNaN(total_debt)), ZeroIfNaN(cash))
       ELSE IF IsNum(ev_info) THEN ev_info
       ELSE NaN


\* fetch_core_financials: the CanonicalFundamentals record of a ticker.
fetch_core_financials(t) ==
    LET q_is == get_df(t, StatementAttrs.income)
        q_bs == get_df(t, StatementAttrs.balance)
        q_cf == get_df(t, StatementAttrs.cashflow)
        ccy == currencies(t)
        market_ccy == ccy[1]
        fin_ccy == ccy[2]
        fx == fx_rate(t, fin_ccy, market_ccy)
        mc == market_cap_robust(t, q_is)
        revenue_ttm_fc == ttm_sum(q_is, Cands.revenue)
        ebit0 == ttm_sum(q_is, Cands.ebit)
        dep_ttm_fc == ttm_sum(q_is, Cands.dep)
        ebitda0 == ttm_sum(q_is, Cands.ebitda)
        ebit_ttm_fc == IF IsNaNv(ebit0) /\ ~IsNaNv(ebitda0) /\ ~IsNaNv(dep_ttm_fc)
                       THEN Sub(ebitda0, dep_ttm_fc) ELSE ebit0
        ebitda_ttm_fc == IF IsNaNv(ebitda0) /\ ~IsNaNv(ebit_ttm_fc) /\ ~IsNaNv(dep_ttm_fc)
                         THEN Add(ebit_ttm_fc, dep_ttm_fc) ELSE ebitda0
        cfo_ttm_fc == ttm_sum(q_cf, Cands.cfo)
        capex0 == ttm_sum(q_cf, Cands.capex)
        capex_ttm_fc == capex_normalized(capex0)
        debt0 == mrq_value(q_bs, Cands.total_debt)
        total_debt_fc == IF IsNaNv(debt0)
                         THEN Add(ZeroIfNaN(mrq_value(q_bs, Cands.long_debt)),
                                  ZeroIfNaN(mrq_value(q_bs, Cands.short_debt)))
                         ELSE debt0
        cash == conv(mrq_value(q_bs, Cands.cash), fx)
        cur_assets == conv(mrq_value(q_bs, Cands.cur_assets), fx)
        cur_liab == conv(mrq_value(q_bs, Cands.cur_liab), fx)
        std == conv(mrq_value(q_bs, Cands.std), fx)
        cfo_ttm == conv(cfo_ttm_fc, fx)
        capex_ttm == conv(capex_ttm_fc, fx)
        total_debt == conv(total_debt_fc, fx)
    IN [Currency_Market |-> market_ccy,
        Currency_Financial |-> fin_ccy,
        FX_fin_to_market |-> fx,
        Market_Cap |-> mc,
        EV |-> enterprise_value(t, mc, total_debt, cash),
        Revenue_TTM |-> conv(revenue_ttm_fc, fx),
        EBIT_TTM |-> conv(ebit_ttm_fc, fx),
        Dep_TTM |-> conv(dep_ttm_fc, fx),
        EBITDA_TTM |-> conv(ebitda_ttm_fc, fx),
        CFO_TTM |-> cfo_ttm,
        CapEx_TTM |-> capex_ttm,
        FCF_TTM |-> IF ~IsNaNv(cfo_ttm) /\ ~IsNaNv(capex_ttm)
                    THEN Add(cfo_ttm, capex_ttm) ELSE NaN,
        Debt_MRQ |-> total_debt,
        Cash_MRQ |-> cash,
        Equity_MRQ |-> conv(mrq_value(q_bs, Cands.equity), fx),
        NWC_MRQ |-> IF ~IsNaNv(cur_assets) /\ ~IsNaNv(cur_liab)
                    THEN Sub(Sub(cur_assets, ZeroIfNaN(cash)), Sub(cur_liab, ZeroIfNaN(std)))
                    ELSE NaN,
        NetPPE_MRQ |-> conv(mrq_value(q_bs, Cands.net_ppe), fx),
        Tax_Rate_est |-> tax_rate_est(ttm_sum(q_is, Cands.pretax), ttm_sum(q_is, Cands.tax))]

\* compute_common_multiples
compute_common_multiples(fin) ==
    LET F(k) == DictGetOr(fin, k, NaN)
    IN [ev_ebitda |-> safe_div(F("EV"), F("EBITDA_TTM")),
        ev_ebit |-> safe_div(F("EV"), F("EBIT_TTM")),
        ev_sales |-> safe_div(F("EV"), F("Revenue_TTM")),
        ebit_ev |-> safe_div(F("EBIT_TTM"), F("EV")),
        fcf_yield |-> safe_div(F("FCF_TTM"), F("Market_Cap")),
        p_fcf |-> safe_div(F("Market_Cap"), F("FCF_TTM"))]

\* compute_roic_variants (metrics.py 334-341): the rate is the record's
\* estimate, 0.21 when that is NaN, and NOPAT is EBIT * (1 - rate); then
\* the function reads the debt, equity and cash of the record and names
\* "invested", which was never assigned: every call raises NameError, and
\* neither the rate nor the NOPAT is delivered.
compute_roic_variants(fin) ==
    LET ebit == DictGetOr(fin, "EBIT_TTM", NaN)
        tr_est == DictGetOr(fin, "Tax_Rate_est", NaN)
        tr == IF IsNaNv(tr_est) THEN Pct(21) ELSE tr_est
        nopat == IF IsNaNv(ebit) THEN NaN ELSE Mul(ebit, Sub(Whole(1), tr))
    IN Raised

-----------------------------------------------------------------------------
(* Specification SpecFin: fetch_core_financials, then the ratio helpers   *)
(* on its record, on tickers with a few statement rows and a few kinds of  *)
(* market data.                                                            *)

\* Largest number of inputs of a ticker: the rows of its three statements,
\* plus one when its market data is not the plain one.
MaxRows == 2

\* The row labels the provider reports, by statement.
RowPool ==
    [income |-> {<<"T","o","t","a","l"," ","R","e","v","e","n","u","e">>, <<"E","B","I","T">>, <<"E","B","I","T","D","A">>, <<"R","e","c","o","n","c","i","l","e","d"," ","D","e","p","r","e","c","i","a","t","i","o","n">>, <<"P","r","e","t","a","x"," ","I","n","c","o","m","e">>,
     <<"I","n","c","o","m","e"," ","T","a","x"," ","E","x","p","e","n","s","e">>},
     cashflow |-> {<<"O","p","e","r","a","t","i","n","g"," ","C","a","s","h"," ","F","l","o","w">>, <<"C","a","p","i","t","a","l"," ","E","x","p","e","n","d","i","t","u","r","e">>},
     balance |-> {<<"T","o","t","a","l"," ","D","e","b","t">>, <<"L","o","n","g"," ","T","e","r","m"," ","D","e","b","t">>, <<"C","a","s","h"," ","A","n","d"," ","C","a","s","h"," ","E","q","u","i","v","a","l","e","n","t","s">>, <<"S","t","o","c","k","h","o","l","d","e","r","s"," ","E","q","u","i","t","y">>,
     <<"C","u","r","r","e","n","t"," ","A","s","s","e","t","s">>, <<"C","u","r","r","e","n","t"," ","L","i","a","b","i","l","i","t","i","e","s">>}]

\* The values of a row, most recent quarter first.
RowValsPool == {<<Whole(0)>>, <<Whole(2)>>, <<Whole(-3)>>, <<NaN, Whole(8)>>}

\* A statement with the given rows (a set of labels with their values):
\* the labels in some fixed order, every row padded with NaN to two periods.
RECURSIVE SetToSeq(_)
SetToSeq(S) ==
    IF S = {} THEN <<>>
    ELSE LET x == CHOOSE y \in S : TRUE IN <<x>> \o SetToSeq(S \ {x})

Statement(labels, vals) ==
    LET index == SetToSeq(labels)
    IN [isNone |-> FALSE, index |-> index,
        rows |-> [i \in 1..Len(index) |->
                     IF Len(vals[index[i]]) = 1 THEN vals[index[i]] \o <<NaN>>
                     ELSE vals[index[i]]]]

\* The market data of a ticker.
Market(fast_info, infoRaises, info, closes, shares_full, fx_pair, fx_inv) ==
    [fast_info |-> fast_info, infoRaises |-> infoRaises, info |-> info, closes |-> closes,
     sharesFullRaises |-> Len(shares_full) = 0, shares_full |-> shares_full,
     fx_pair |-> fx_pair, fx_inv |-> fx_inv]

\* The plain market data: a market cap from fast_info, everything in USD.
PlainMarket ==
    Market([market_cap |-> Whole(500)], FALSE, [marketCap |-> Whole(400)], <<>>, <<>>, NaN, NaN)

MarketPool ==
    { PlainMarket,
      Market(None, FALSE, [marketCap |-> Whole(400), enterpriseValue |-> Whole(900)],
             <<>>, <<>>, NaN, NaN),
      Market(EmptyDict, FALSE, [sharesOutstanding |-> Whole(10), enterpriseValue |-> Whole(900)],
             <<Whole(20), NaN>>, <<>>, NaN, NaN),
      Market(None, TRUE, EmptyDict, <<>>, <<>>, NaN, NaN),
      Market(None, FALSE, [enterpriseValue |-> Whole(900)], <<>>, <<>>, NaN, NaN),
      Market([last_price |-> Whole(5), shares |-> Whole(0)], FALSE,
             [enterpriseValue |-> Whole(900)], <<>>, <<Whole(30), Whole(40)>>, NaN, NaN),
      Market([market_cap |-> Whole(500), currency |-> "USD"], FALSE,
             [financialCurrency |-> "DKK"], <<>>, <<>>, NaN, Whole(5)),
      Market([market_cap |-> Whole(0)], FALSE, [marketCap |-> Whole(400)],
             <<>>, <<>>, NaN, NaN),
      Market([market_cap |-> NaN, last_price |-> Whole(5), shares |-> Whole(30)], FALSE,
             [marketCap |-> Whole(-400)], <<>>, <<>>, NaN, NaN) }

InitFin ==
    /\ pc = "call"
    /\ \E market \in MarketPool :
       \E L \in SUBSET (RowPool.income \cup RowPool.cashflow \cup RowPool.balance) :
          /\ Cardinality(L) + (IF market = PlainMarket THEN 0 ELSE 1) <= MaxRows
          /\ \E vals \in [L -> RowValsPool] :
                LET St(pool) == Statement(L \cap pool, vals)
                IN args = [fn |-> "fetch_core_financials",
                           t |-> market @@
                                 [attrs |-> [quarterly_income_stmt |-> St(RowPool.income),
                                             quarterly_balance_sheet |-> St(RowPool.balance),
                                             quarterly_cashflow |-> St(RowPool.cashflow)]]]
    /\ ret = NoRet
    /\ ScreenerIdle

CallFetchCoreFinancials ==
    /\ pc = "call"
    /\ args.fn = "fetch_core_financials"
    /\ ret' = [fn |-> "fetch_core_financials", val |-> fetch_core_financials(args.t)]
    /\ pc' = "return"
    /\ UNCHANGED <<args, screenerVars>>

\* compute_roic_variants(fin) on the record just returned.
CallComputeRoicVariants ==
    /\ pc = "return"
    /\ ret.fn = "fetch_core_financials"
    /\ ret' = [fn |-> "compute_roic_variants", fin |-> ret.val,
               val |-> compute_roic_variants(ret.val)]
    /\ UNCHANGED <<pc, args, screenerVars>>

\* compute_common_multiples(fin) on the record just returned.
CallComputeCommonMultiples ==
    /\ pc = "return"
    /\ ret.fn = "fetch_core_financials"
    /\ ret' = [fn |-> "compute_common_multiples", fin |-> ret.val,
               val |-> compute_common_multiples(ret.val)]
    /\ UNCHANGED <<pc, args, screenerVars>>

SpecFin ==
    InitFin /\ [][\/ CallFetchCoreFinancials
                  \/ CallComputeRoicVariants
                  \/ CallComputeCommonMultiples]_vars


\* Trailing pretax income as the statement reports it: the sum of the
\* reported values of the resolved pretax row (InitFin's statements have
\* at most four periods), NaN when no label resolves or nothing is reported.
PretaxReported(t) ==
    LET q == t.attrs.quarterly_income_stmt
        j == ResolvedRow(q, Cands.pretax)
    IN IF j = 0 \/ Len(dropna(q.rows[j])) = 0 THEN NaN ELSE SumSeq(dropna(q.rows[j]))

InTaxRange(r) == IsNum(r) /\ Ge(r, Whole(0)) /\ Le(r, Pct(35))

\* C7: the tax rate estimate of the record returned by
\* fetch_core_financials is never null, lies in [0, 0.35], and is exactly
\* 0.21 when trailing pretax income is zero or undefined.
C7_RecordTaxRateNeverNull ==
    Returned("fetch_core_financials") =>
        /\ InTaxRange(ret.val.Tax_Rate_est)
        /\ (IsNaNv(PretaxReported(args.t)) \/ PyEq0(PretaxReported(args.t)))
              => ret.val.Tax_Rate_est = Pct(21)

-----------------------------------------------------------------------------
(* Claims about the record of fetch_core_financials and its ratios.        *)

\* A missing amount counted as zero.
OrZero(x) == IF IsNaNv(x) THEN Whole(0) ELSE x

\* The enterprise value the provider reports directly, NaN when the info
\* call fails, the field is absent or it holds no number.
ReportedEV(t) ==
    IF ~t.infoRaises /\ "enterpriseValue" \in DOMAIN t.info /\ IsNum(t.info.enterpriseValue)
    THEN t.info.enterpriseValue ELSE NaN

\* C11: in the record of fetch_core_financials, when Market_Cap is present
\* EV = Market_Cap + Debt - Cash with a missing Debt or Cash counted as
\* zero; when Market_Cap is unavailable EV is the enterprise value the
\* provider reports directly, and null when it reports none.
C11_EnterpriseValue ==
    Returned("fetch_core_financials") =>
        LET fin == ret.val
        IN IF ~IsNaNv(fin.Market_Cap)
           THEN fin.EV = Sub(Add(fin.Market_Cap, OrZero(fin.Debt_MRQ)), OrZero(fin.Cash_MRQ))
           ELSE fin.EV = ReportedEV(args.t)

\* C11 witness: a market cap and a debt are known, cash is missing, and EV
\* is market cap + debt.
C11_Witness ==
    /\ Returned("fetch_core_financials")
    /\ IsNum(ret.val.Market_Cap)
    /\ IsNum(ret.val.Debt_MRQ) /\ ret.val.Debt_MRQ.num # 0
    /\ IsNaNv(ret.val.Cash_MRQ)
    /\ ret.val.EV = Add(ret.val.Market_Cap, ret.val.Debt_MRQ)

\* No candidate label of the field resolves in the statement.
Unresolved(q, cands) == ResolvedRow(q, cands) = 0

\* C12 (as claimed): in the record of fetch_core_financials a field none of
\* whose candidate labels resolves is null (EBIT and EBITDA unless backfilled
\* from the other and depreciation; Debt_MRQ when neither a total, a
\* long-term nor a short-term debt label resolves), FCF_TTM is null when CFO
\* or CapEx is null, NWC_MRQ is null when current assets or current
\* liabilities are unresolved, and every multiple is null when its numerator
\* or its denominator is null.
C12_NoZeroSubstitution ==
    /\ Returned("fetch_core_financials") =>
          LET fin == ret.val
              is == args.t.attrs.quarterly_income_stmt
              bs == args.t.attrs.quarterly_balance_sheet
              cf == args.t.attrs.quarterly_cashflow
          IN /\ Unresolved(is, Cands.revenue) => IsNaNv(fin.Revenue_TTM)
             /\ Unresolved(is, Cands.dep) => IsNaNv(fin.Dep_TTM)
             /\ (Unresolved(is, Cands.ebit)
                   /\ (Unresolved(is, Cands.ebitda) \/ Unresolved(is, Cands.dep)))
                  => IsNaNv(fin.EBIT_TTM)
             /\ (Unresolved(is, Cands.ebitda)
                   /\ (Unresolved(is, Cands.ebit) \/ Unresolved(is, Cands.dep)))
                  => IsNaNv(fin.EBITDA_TTM)
             /\ Unresolved(cf, Cands.cfo) => IsNaNv(fin.CFO_TTM)
             /\ Unresolved(cf, Cands.capex) => IsNaNv(fin.CapEx_TTM)
             /\ Unresolved(bs, Cands.cash) => IsNaNv(fin.Cash_MRQ)
             /\ Unresolved(bs, Cands.equity) => IsNaNv(fin.Equity_MRQ)
             /\ Unresolved(bs, Cands.net_ppe) => IsNaNv(fin.NetPPE_MRQ)
             /\ (Unresolved(bs, Cands.total_debt) /\ Unresolved(bs, Cands.long_debt)
                   /\ Unresolved(bs, Cands.short_debt))
                  => IsNaNv(fin.Debt_MRQ)
             /\ (IsNaNv(fin.CFO_TTM) \/ IsNaNv(fin.CapEx_TTM)) => IsNaNv(fin.FCF_TTM)
             /\ (Unresolved(bs, Cands.cur_assets) \/ Unresolved(bs, Cands.cur_liab))
                  => IsNaNv(fin.NWC_MRQ)
    /\ Returned("compute_common_multiples") =>
          LET fin == ret.fin
              m == ret.val
              Null2(a, b) == IsNaNv(a) \/ IsNaNv(b)
          IN /\ Null2(fin.EV, fin.EBITDA_TTM) => IsNaNv(m.ev_ebitda)
             /\ Null2(fin.EV, fin.EBIT_TTM) => IsNaNv(m.ev_ebit) /\ IsNaNv(m.ebit_ev)
             /\ Null2(fin.EV, fin.Revenue_TTM) => IsNaNv(m.ev_sales)
             /\ Null2(fin.FCF_TTM, fin.Market_Cap) => IsNaNv(m.fcf_yield) /\ IsNaNv(m.p_fcf)

\* The trailing sum of a field as the statement reports it: the sum of the
\* reported values of the resolved row (InitFin's statements have at most
\* four periods), NaN when no label resolves or nothing is reported.
ReportedSum(q, cands) ==
    LET j == ResolvedRow(q, cands)
    IN IF j = 0 \/ Len(dropna(q.rows[j])) = 0 THEN NaN ELSE SumSeq(dropna(q.rows[j]))

\* C13: whenever the statements report an operating cash flow and a capital
\* expenditure, of either sign, the record's CapEx_TTM is <= 0 and
\* FCF_TTM = CFO - |CapEx| (amounts converted to the market currency).
C13_FcfSignNormalized ==
    Returned("fetch_core_financials") =>
        LET fin == ret.val
            cf == args.t.attrs.quarterly_cashflow
            fx == fin.FX_fin_to_market
            cfo == ReportedSum(cf, Cands.cfo)
            capex == ReportedSum(cf, Cands.capex)
        IN (IsNum(cfo) /\ IsNum(capex)) =>
              /\ Le(fin.CapEx_TTM, Whole(0))
              /\ AbsV(fin.CapEx_TTM) = AbsV(Mul(capex, fx))
              /\ fin.FCF_TTM = Sub(Mul(cfo, fx), AbsV(Mul(capex, fx)))

\* C13 witness: the provider reports capex as a positive number and the
\* record still holds it as an outflow, FCF = CFO - capex.
C13_Witness ==
    /\ Returned("fetch_core_financials")
    /\ IsNum(ReportedSum(args.t.attrs.quarterly_cashflow, Cands.cfo))
    /\ Gt(ReportedSum(args.t.attrs.quarterly_cashflow, Cands.capex), Whole(0))
    /\ Lt(ret.val.CapEx_TTM, Whole(0))
    /\ ret.val.FCF_TTM = Add(ret.val.CFO_TTM, ret.val.CapEx_TTM)

-----------------------------------------------------------------------------
(* Specification SpecSingle: the single-stock tab (app.py 86-317). A       *)
(* ticker is typed, profiles are chosen, "Analyze Stock" is pressed.       *)

\* ticker_input.upper().strip() of what may be typed into the ticker
\* field: nothing, a blank, or "aaa".
upper_strip(s) == CASE s = "aaa" -> "AAA" [] s = " " -> "" [] OTHER -> s

InitSingle ==
    /\ pc = "tab1"
    /\ \E ticker_input \in {"", " ", "aaa"}, up \in UpstreamPool,
          labels \in ProfileChoices \cup {<<k>> : k \in ProfileKeys} :
          args = [fn |-> "analyze_stock", ticker_input |-> ticker_input, up |-> up,
                  selected_profiles_labels |-> labels]
    /\ ret = NoRet
    /\ ScreenerIdle

\* "Analyze Stock" pressed (app.py 108-317): an empty ticker or an empty
\* profile choice is answered with an error; a get_metrics_cached that
\* raises stops the run with "Failed to fetch data"; else every chosen
\* checklist is evaluated on the metrics and shown.
AnalyzeStock ==
    /\ pc = "tab1"
    /\ \E metrics \in {get_metrics_cached(args.up)} :
          LET ticker == upper_strip(args.ticker_input)
              labels == args.selected_profiles_labels
              results == [i \in 1..Len(labels) |-> rules_fn(labels[i], metrics)]
          IN IF ticker = "" THEN pc' = "error_no_ticker" /\ ret' = NoRet
             ELSE IF Len(labels) = 0 THEN pc' = "error_no_profiles" /\ ret' = NoRet
             ELSE IF metrics.raised THEN pc' = "fetch_failed" /\ ret' = NoRet
             ELSE IF \E i \in 1..Len(labels) : results[i].raised
                  THEN pc' = "crashed" /\ ret' = NoRet
             ELSE /\ pc' = "shown"
                  /\ ret' = [fn |-> "analyze_stock", ticker |-> ticker,
                             metrics |-> metrics, results |-> results]
    /\ UNCHANGED <<args, screenerVars>>

SpecSingle == InitSingle /\ [][AnalyzeStock]_vars

\* C14 (as claimed): when the provider fails entirely for the ticker, the
\* fetch stage does not hand back a record (it signals the failure), and
\* the single-stock run is aborted with the fetch error instead of showing
\* checklists evaluated on empty data.
C14_FetchFailureAborts ==
    (/\ args.fn = "analyze_stock" /\ pc # "tab1"
     /\ args.up = TotalFailure
     /\ upper_strip(args.ticker_input) # ""
     /\ Len(args.selected_profiles_labels) > 0)
        => /\ fetch_ticker_data(args.up).raised
           /\ pc = "fetch_failed"

-----------------------------------------------------------------------------
(* The Buffett and Burry lenses (lenses.py).                               *)

\* lenses.py _is_nan: isinstance(x, float) and math.isnan(x)
lens_is_nan(x) == IsNaNv(x)

\* f"{x*100:.1f}%", kept as the signed number of tenths of a percent.
fmt_pct_1f(x) ==
    IF x.num < 0 THEN -RoundHalfEven((-x.num) * 1000, x.den)
    ELSE RoundHalfEven(x.num * 1000, x.den)

\* buffett_lens (lenses.py 86-112): the two key metrics, a note for each
\* one that is not NaN, and the verdict.  A metric that is None is not NaN
\* for _is_nan, so its note multiplies None by 100, which raises TypeError.
buffett_lens(multiples, returns) ==
    LET fcf_yield == DictGetOr(multiples, "fcf_yield", NaN)
        roic == DictGetOr(returns, "roic", NaN)
        n1 == IF ~lens_is_nan(fcf_yield)
              THEN <<[label |-> "FCF Yield", tenths |-> fmt_pct_1f(fcf_yield)]>> ELSE <<>>
        n2 == IF ~lens_is_nan(roic)
              THEN <<[label |-> "ROIC", tenths |-> fmt_pct_1f(roic)]>> ELSE <<>>
        roic_ok == ~lens_is_nan(roic) /\ Ge(roic, Pct(15))
    IN IF IsNone(fcf_yield) \/ IsNone(roic) THEN Raised
       ELSE [raised |-> FALSE, fcf_yield |-> fcf_yield, roic |-> roic, notes |-> n1 \o n2,
             verdict |-> IF ~lens_is_nan(fcf_yield) /\ Ge(fcf_yield, Pct(5)) /\ roic_ok
                         THEN "Quality at Reasonable Price"
                         ELSE IF roic_ok THEN "Great Business, Price TBD"
                         ELSE "Pass / Wait"]

\* The notes, the count of held screens and the verdict of burry_lens for
\* the three screens held or not.
burry_result(ev_ebitda, ev_ebit, fcf_yield, cheap, supportive, attractive) ==
    LET n1 == IF lens_is_nan(ev_ebitda) THEN <<>>
              ELSE IF cheap THEN <<"EV/EBITDA < 8 -> potentially cheap (Burry screen).">>
              ELSE <<"EV/EBITDA >= 8 -> not obviously cheap by Burry screen.">>
        n2 == IF lens_is_nan(ev_ebit) THEN <<>>
              ELSE IF supportive THEN <<"EV/EBIT < 10 -> supportive.">>
              ELSE <<"EV/EBIT >= 10 -> caution.">>
        n3 == IF lens_is_nan(fcf_yield) THEN <<>>
              ELSE IF attractive THEN <<"FCF Yield > 8% -> attractive cash yield.">>
              ELSE IF Gt(fcf_yield, Whole(0)) THEN <<"Positive FCF yield, but < 8%.">>
              ELSE <<"Negative/zero FCF yield.">>
        passes == (IF cheap THEN 1 ELSE 0) + (IF supportive THEN 1 ELSE 0)
                  + (IF attractive THEN 1 ELSE 0)
    IN [raised |-> FALSE, ev_ebitda |-> ev_ebitda, ev_ebit |-> ev_ebit,
        fcf_yield |-> fcf_yield, notes |-> n1 \o n2 \o n3, passes |-> passes,
        verdict |-> IF passes >= 2 THEN "Strong"
                    ELSE IF passes = 1 THEN "Mixed" ELSE "Weak"]

\* A plausible bug: the EV/EBITDA screen includes 8.
burry_lens_inclusive(multiples) ==
    LET ev_ebitda == DictGetOr(multiples, "ev_ebitda", NaN)
        ev_ebit == DictGetOr(multiples, "ev_ebit", NaN)
        fcf_yield == DictGetOr(multiples, "fcf_yield", NaN)
    IN burry_result(ev_ebitda, ev_ebit, fcf_yield,
                    ~lens_is_nan(ev_ebitda) /\ Le(ev_ebitda, Whole(8)),
                    ~lens_is_nan(ev_ebit) /\ Lt(ev_ebit, Whole(10)),
                    ~lens_is_nan(fcf_yield) /\ Gt(fcf_yield, Pct(8)))

\* burry_lens (lenses.py 14-55); comparing None with a number raises.
burry_lens(multiples) ==
    LET ev_ebitda == DictGetOr(multiples, "ev_ebitda", NaN)
        ev_ebit == DictGetOr(multiples, "ev_ebit", NaN)
        fcf_yield == DictGetOr(multiples, "fcf_yield", NaN)
    IN IF IsNone(ev_ebitda) \/ IsNone(ev_ebit) \/ IsNone(fcf_yield) THEN Raised
       ELSE burry_result(ev_ebitda, ev_ebit, fcf_yield,
                         ~lens_is_nan(ev_ebitda) /\ Lt(ev_ebitda, Whole(8)),
                         ~lens_is_nan(ev_ebit) /\ Lt(ev_ebit, Whole(10)),
                         ~lens_is_nan(fcf_yield) /\ Gt(fcf_yield, Pct(8)))

-----------------------------------------------------------------------------
(* Specification SpecRatios: the ratio engine, the lens and the checklists *)
(* on fundamentals records given directly.                                 *)

\* The values of each field of the records.
FinPool ==
    [EV : {NaN, Whole(0), Whole(800)},
     EBITDA_TTM : {NaN, Whole(0), Whole(100)},
     EBIT_TTM : {NaN, Whole(50), Whole(80)},
     Market_Cap : {NaN, Whole(500)},
     FCF_TTM : {NaN, Whole(-10), Whole(40), Whole(50)},
     Tax_Rate_est : {NaN, Pct(21), Pct(35)},
     Debt_MRQ : {NaN, Whole(100)},
     Equity_MRQ : {NaN, Whole(200)},
     Cash_MRQ : {NaN, Whole(50)}]

\* The info snapshot that states the same fundamentals; a null field is
\* absent from it (how = "absent"), None ("none") or NaN ("nan").
info_of_fin(fin, how) ==
    LET pairs == {<<"enterpriseValue", fin.EV>>, <<"ebitda", fin.EBITDA_TTM>>,
                  <<"marketCap", fin.Market_Cap>>, <<"freeCashflow", fin.FCF_TTM>>}
        kept == {p \in pairs : how = "absent" => ~IsNaNv(p[2])}
    IN [k \in {p[1] : p \in kept} |->
           LET v == (CHOOSE p \in kept : p[1] = k)[2]
           IN IF IsNaNv(v) /\ how = "none" THEN None ELSE v]

\* The metrics dict whose valuation section holds the multiples.
metrics_of_multiples(m) ==
    [valuation |-> [ev_ebitda |-> m.ev_ebitda, fcf_yield |-> m.fcf_yield]]

InitRatios ==
    /\ pc = "call"
    /\ \E fin \in FinPool : args = [fn |-> "ratios", fin |-> fin]
    /\ ret = NoRet
    /\ ScreenerIdle

\* compute_common_multiples(fin)
RatiosMultiples ==
    /\ pc = "call"
    /\ args.fn = "ratios"
    /\ ret' = [fn |-> "compute_common_multiples", val |-> compute_common_multiples(args.fin)]
    /\ pc' = "return"
    /\ UNCHANGED <<args, screenerVars>>

\* compute_roic_variants(fin)
RatiosReturns ==
    /\ pc = "call"
    /\ args.fn = "ratios"
    /\ ret' = [fn |-> "compute_roic_variants", val |-> compute_roic_variants(args.fin)]
    /\ pc' = "return"
    /\ UNCHANGED <<args, screenerVars>>

\* buffett_lens(compute_common_multiples(fin), returns): no returns dict
\* comes out of compute_roic_variants, so the lens gets one with a ROIC
\* given directly (None among the values: the lens raises on it).
RatiosBuffettLens ==
    /\ pc = "call"
    /\ args.fn = "ratios"
    /\ \E roic \in {None, NaN, Pct(10), Pct(15), Num(158, 1000), Pct(20)} :
       \E returns \in {[roic |-> roic]} :
          ret' = [fn |-> "buffett_lens", returns |-> returns,
                  val |-> buffett_lens(compute_common_multiples(args.fin), returns)]
    /\ pc' = "return"
    /\ UNCHANGED <<args, screenerVars>>

\* burry_lens(compute_common_multiples(fin))
RatiosBurryLens ==
    /\ pc = "call"
    /\ args.fn = "ratios"
    /\ \E multiples \in {compute_common_multiples(args.fin)} :
          ret' = [fn |-> "burry_lens", multiples |-> multiples,
                  val |-> burry_lens(multiples)]
    /\ pc' = "return"
    /\ UNCHANGED <<args, screenerVars>>

\* compute_metrics on the info snapshot that states the same fundamentals.
RatiosCoreMetrics ==
    /\ pc = "call"
    /\ args.fn = "ratios"
    /\ \E how \in {"absent", "none", "nan"} :
          ret' = [fn |-> "compute_metrics", how |-> how,
                  val |-> compute_metrics([info |-> info_of_fin(args.fin, how),
                                           history |-> <<>>])]
    /\ pc' = "return"
    /\ UNCHANGED <<args, screenerVars>>

\* A checklist on the ratios just computed: on the metrics of
\* compute_metrics, or on the multiples of compute_common_multiples.
RatiosChecklist ==
    /\ pc = "return"
    /\ ret.fn \in {"compute_common_multiples", "compute_metrics"}
    /\ \E key \in {"greenblatt", "burry", "dividend"} :
       \E metrics \in {IF ret.fn = "compute_metrics" THEN ret.val
                       ELSE metrics_of_multiples(ret.val)} :
          /\ ~DictGetOr(metrics, "raised", FALSE)
          /\ ret' = [fn |-> "rules_fn", key |-> key, metrics |-> metrics,
                     val |-> rules_fn(key, metrics)]
    /\ pc' = "checked"
    /\ UNCHANGED <<args, screenerVars>>

SpecRatios ==
    InitRatios /\ [][\/ RatiosMultiples
                      \/ RatiosReturns
                      \/ RatiosBuffettLens
                      \/ RatiosBurryLens
                      \/ RatiosCoreMetrics
                      \/ RatiosChecklist]_vars

\* A checklist has been evaluated on the ratios of the record.
Checked(keys) == pc = "checked" /\ ret.fn = "rules_fn" /\ ret.key \in keys

\* The statuses of the returned rules that have the given name.
StatusesOf(name) ==
    {ret.val.rules[i].status :
        i \in {j \in 1..Len(ret.val.rules) : ret.val.rules[j].name = name}}

\* C15: for fundamentals with EV = 800 and EBITDA_TTM = 100,
\* compute_common_multiples yields EV/EBITDA = 8, and the Greenblatt and
\* Burry checklists have a rule "EV/EBITDA <= 10" that classifies that
\* value as pass.
C15_ScenarioA ==
    (args.fn = "ratios" /\ args.fin.EV = Whole(800) /\ args.fin.EBITDA_TTM = Whole(100)) =>
        /\ Returned("compute_common_multiples") => ret.val.ev_ebitda = Whole(8)
        /\ (Checked({"greenblatt", "burry"}) /\ ret.metrics.valuation.ev_ebitda = Whole(8)) =>
              /\ ~ret.val.raised
              /\ \E i \in 1..Len(ret.val.rules) :
                    /\ ret.val.rules[i].name = "EV/EBITDA"
                    /\ ret.val.rules[i].condition = "EV/EBITDA <= 10"
              /\ StatusesOf("EV/EBITDA") = {"pass"}

\* C15 witness: the Burry checklist has classified the multiple 8 that
\* compute_common_multiples gave for EV = 800 and EBITDA_TTM = 100.
C15_Witness ==
    /\ Checked({"burry"})
    /\ args.fin.EV = Whole(800) /\ args.fin.EBITDA_TTM = Whole(100)
    /\ "meta" \notin DOMAIN ret.metrics
    /\ ret.metrics.valuation.ev_ebitda = Whole(8)
    /\ StatusesOf("EV/EBITDA") = {"pass"}

\* C16: when free cash flow is null and the market cap is 500, the FCF
\* yield is null in compute_common_multiples and in compute_metrics
\* (however the snapshot states the null), and the "FCF yield" rule of the
\* Burry and Dividend checklists is not-applicable.
C16_ScenarioB ==
    (args.fn = "ratios" /\ IsNaNv(args.fin.FCF_TTM) /\ args.fin.Market_Cap = Whole(500)) =>
        /\ Returned("compute_common_multiples") => IsNaNv(ret.val.fcf_yield)
        /\ Returned("compute_metrics") =>
              ~ret.val.raised /\ IsNaNv(ret.val.valuation.fcf_yield)
        /\ Checked({"burry", "dividend"}) =>
              ~ret.val.raised /\ StatusesOf("FCF yield") = {"na"}

\* C16 witness: the Dividend checklist ran on the metrics compute_metrics
\* derived from a snapshot with freeCashflow None and marketCap 500.
C16_Witness ==
    /\ Checked({"dividend"})
    /\ IsNaNv(args.fin.FCF_TTM) /\ args.fin.Market_Cap = Whole(500)
    /\ "meta" \in DOMAIN ret.metrics
    /\ ret.metrics.meta.market_cap = Whole(500)
    /\ StatusesOf("FCF yield") = {"na"}

\* C17 (as claimed): compute_roic_variants returns NOPAT = EBIT x (1 - tax
\* rate), null when EBIT is null, with 0.21 for a null tax rate, and ROIC =
\* NOPAT / Invested_Capital with Invested_Capital = Debt + Equity - Cash;
\* for EBIT_TTM = 50, tax rate 0.21 and invested capital 250, NOPAT = 39.5
\* and ROIC = 0.158, and the Buffett lens finds ROIC >= 15% for that ROIC.
C17_ScenarioC ==
    args.fn = "ratios" =>
        LET fin == args.fin
            tr == IF IsNaNv(fin.Tax_Rate_est) THEN Pct(21) ELSE fin.Tax_Rate_est
            scenario == /\ fin.EBIT_TTM = Whole(50) /\ tr = Pct(21)
                        /\ fin.Debt_MRQ = Whole(100) /\ fin.Equity_MRQ = Whole(200)
                        /\ fin.Cash_MRQ = Whole(50)
        IN /\ Returned("compute_roic_variants") =>
                 LET r == ret.val
                 IN /\ ~r.raised
                    /\ r.nopat = IF IsNaNv(fin.EBIT_TTM) THEN NaN
                                 ELSE Mul(fin.EBIT_TTM, Sub(Whole(1), tr))
                    /\ (IsNum(fin.Debt_MRQ) /\ IsNum(fin.Equity_MRQ) /\ IsNum(fin.Cash_MRQ)) =>
                          /\ r.invested = Sub(Add(fin.Debt_MRQ, fin.Equity_MRQ), fin.Cash_MRQ)
                          /\ IsNum(r.nopat) => r.nopat = Mul(r.roic, r.invested)
                    /\ scenario => r.nopat = Num(395, 10) /\ r.roic = Num(158, 1000)
           /\ (Returned("buffett_lens") /\ ret.returns.roic = Num(158, 1000)) =>
                 /\ ret.val.roic = Num(158, 1000)
                 /\ ret.val.verdict \in {"Quality at Reasonable Price",
                                         "Great Business, Price TBD"}

\* The four statuses a rule can carry.
RuleStatuses == {"pass", "warn", "fail", "na"}

\* The positions of the returned rules that carry the given status.
RulesWith(status) == {i \in 1..Len(ret.val.rules) : ret.val.rules[i].status = status}

C19_SummaryCountsAndHeadline ==
    (Returned("rules_fn") /\ ~ret.val.raised) =>
        LET s == ret.val.summary
            np == Cardinality(RulesWith("pass"))
            nw == Cardinality(RulesWith("warn"))
            nf == Cardinality(RulesWith("fail"))
            start == s.headline[1]
            end == s.headline[3]
        IN /\ s.passes = np /\ s.warns = nw /\ s.fails = nf
           /\ s.passes + s.warns + s.fails + Cardinality(RulesWith("na"))
                 = Len(ret.val.rules)
           /\ Len(s.headline) = 3
           /\ (start = "Very " /\ end = "-friendly profile.") <=> (nf = 0 /\ np >= 4)
           /\ (start = "Mixed but somewhat " /\ end = "-compatible.")
                 <=> (~(nf = 0 /\ np >= 4) /\ np >= nf)
           /\ (start = "Not a classic " /\ end = "-style candidate.") <=> (np < nf)

\* C19 witness: a checklist with no fail and four passes got the "Very"
\* headline.
C19_Witness ==
    /\ Returned("rules_fn") /\ ~ret.val.raised
    /\ Cardinality(RulesWith("fail")) = 0
    /\ Cardinality(RulesWith("pass")) = 4
    /\ ret.val.summary.headline[1] = "Very "

\* The value the metrics dict of the call holds for section/key, NaN when
\* it holds none.
MetricIn(section, key) ==
    IF section \in DOMAIN args.metrics /\ key \in DOMAIN args.metrics[section]
    THEN args.metrics[section][key] ELSE NaN

\* The profiles whose checklist has a debt/equity rule.
LeverageProfiles == ProfileKeys \ {"greenblatt"}

\* C20: the Graham P/E rule is pass when P/E <= 15 and fail otherwise for
\* every non-null P/E, and the debt/equity rule of every profile that has
\* one is pass when debt/equity <= 0.5, warn when 0.5 < debt/equity <= 1.0
\* and fail when debt/equity > 1.0.
C20_DocumentedThresholds ==
    (Returned("rules_fn") /\ ~ret.val.raised) =>
        LET pe == MetricIn("valuation", "pe")
            de == MetricIn("balance_sheet", "debt_to_equity")
        IN /\ (args.key = "graham" /\ IsNum(pe)) =>
                 StatusesOf("P/E multiple") =
                     {IF Le(pe, Whole(15)) THEN "pass" ELSE "fail"}
           /\ (StatusesOf("Leverage") # {}) <=> args.key \in LeverageProfiles
           /\ (args.key \in LeverageProfiles /\ IsNum(de)) =>
                 StatusesOf("Leverage") =
                     {IF Le(de, Pct(50)) THEN "pass"
                      ELSE IF Le(de, Whole(1)) THEN "warn" ELSE "fail"}

\* C20 witness: Graham's checklist met P/E exactly 15 and debt/equity
\* exactly 1.0.
C20_Witness ==
    /\ Returned("rules_fn") /\ ~ret.val.raised
    /\ args.key = "graham"
    /\ MetricIn("valuation", "pe") = Whole(15)
    /\ MetricIn("balance_sheet", "debt_to_equity") = Whole(1)
    /\ StatusesOf("P/E multiple") = {"pass"}
    /\ StatusesOf("Leverage") = {"warn"}

\* The three sources of the market cap, in the order of the claim: what
\* fast_info and info hold (None when the source has nothing or raised),
\* and recent price x shares outstanding.
McapSources(t) ==
    LET fi == t.fast_info
        q_is == get_df(t, StatementAttrs.income)
    IN << IF ~IsNoneDict(fi) /\ "market_cap" \in DOMAIN fi THEN fi.market_cap ELSE None,
          IF ~t.infoRaises /\ "marketCap" \in DOMAIN t.info THEN t.info.marketCap ELSE None,
          Mul(recent_close(fi, t.closes), shares_outstanding_robust(t, q_is)) >>

\* A positive, non-null value.
PositiveValue(v) == IsNum(v) /\ Gt(v, Whole(0))

\* C21: the market cap is the value of the first of fast_info.market_cap,
\* info.marketCap and price x shares that is positive and non-null,
\* whatever the later sources hold (they are not consulted), and null
\* when none is.
C21_MarketCapResolutionOrder ==
    Returned("fetch_core_financials") =>
        LET src == McapSources(args.t)
            firsts == {i \in 1..3 : PositiveValue(src[i])
                                    /\ \A j \in 1..(i - 1) : ~PositiveValue(src[j])}
        IN IF firsts = {} THEN IsNaNv(ret.val.Market_Cap)
           ELSE \A i \in firsts : ret.val.Market_Cap = src[i]

\* C21 witness: fast_info and info both hold a positive market cap, they
\* differ, and the one of fast_info was returned.
C21_Witness ==
    /\ Returned("fetch_core_financials")
    /\ PositiveValue(McapSources(args.t)[1])
    /\ PositiveValue(McapSources(args.t)[2])
    /\ McapSources(args.t)[1] # McapSources(args.t)[2]
    /\ ret.val.Market_Cap = McapSources(args.t)[1]

\* C22 (as claimed): whenever trailing pretax income is non-zero and the
\* trailing income tax expense is non-null, the tax rate estimate is
\* |income tax expense| / |pretax income| clamped to [0, 0.35], also for a
\* negative tax expense.
C22_TaxRateFormula ==
    Returned("fetch_core_financials") =>
        LET pretax == PretaxReported(args.t)
            tax == ReportedSum(args.t.attrs.quarterly_income_stmt, Cands.tax)
            ratio == TrueDiv(AbsV(tax), AbsV(pretax))
        IN (IsNum(pretax) /\ ~PyEq0(pretax) /\ IsNum(tax)) =>
              ret.val.Tax_Rate_est =
                  IF Gt(ratio, Pct(35)) THEN Pct(35) ELSE ratio

\* The number of rules of each profile.
RuleCount ==
    [graham |-> 5, buffett |-> 6, lynch |-> 4, greenblatt |-> 3, burry |-> 3,
     smith |-> 6, dividend |-> 5, fisher |-> 5]

\* The metrics of the call with the metric m set to v (the section of m
\* has to be a dict of the metrics).
MetricsWith(m, v) ==
    LET sec == args.metrics[m[1]]
    IN [args.metrics EXCEPT
           ![m[1]] = [k \in DOMAIN sec \cup {m[2]} |-> IF k = m[2] THEN v ELSE sec[k]]]

\* C23: a profile's rules_fn emits the same number of rules in the same
\* order for every metrics input (graham 5, buffett 6, lynch 4, greenblatt
\* 3, burry 3, smith 6, dividend 5, fisher 5), and a rule's status is the
\* same on any two inputs that agree on the metrics the rule reads, so it
\* does not depend on the outcome of another rule.
C23_FixedIndependentRules ==
    (Returned("rules_fn") /\ ~ret.val.raised) =>
        /\ Len(ret.val.rules) = RuleCount[args.key]
        /\ \A m \in ProfileReads(args.key), v \in {None, NaN, Num(-1, 10), Whole(40)} :
              (m[1] \in DOMAIN args.metrics /\ ~IsNoneDict(args.metrics[m[1]])) =>
                  LET other == rules_fn(args.key, MetricsWith(m, v))
                  IN /\ ~other.raised
                     /\ Len(other.rules) = Len(ret.val.rules)
                     /\ \A i \in 1..Len(ret.val.rules) :
                           m \notin RuleInputs(args.key)[i].of =>
                               /\ other.rules[i].name = ret.val.rules[i].name
                               /\ other.rules[i].status = ret.val.rules[i].status

\* C23 witness: Graham's checklist came back with five rules, the first
\* one failed and the leverage rule after it passed.
C23_Witness ==
    /\ Returned("rules_fn") /\ ~ret.val.raised
    /\ args.key = "graham"
    /\ Len(ret.val.rules) = 5
    /\ ret.val.rules[1].status = "fail"
    /\ ret.val.rules[4].status = "pass"

\* The number of entries the run has to process: the first max_tickers of
\* the universe.
ToProcess == IF max_tickers < Len(universe) THEN max_tickers ELSE Len(universe)

\* The place in the universe of the entry a result row belongs to.
EntryOf(r) == CHOOSE i \in 1..Len(universe) : universe[i].Ticker = r.Ticker

\* The rows belong to the entries processed so far, one row per entry at
\* most, in universe order.
RowsInUniverseOrder ==
    /\ \A k \in 1..Len(results_rows) :
          \E i \in 1..work_i : universe[i].Ticker = results_rows[k].Ticker
    /\ \A k, l \in 1..Len(results_rows) :
          k < l => EntryOf(results_rows[k]) < EntryOf(results_rows[l])

\* C24: the screener processes the first max_tickers entries of the
\* universe one after the other and terminates: every step of the loop
\* completes exactly the next entry (its row is appended or it is
\* skipped), an entry contributes at most one row, before the sort the
\* rows are in universe order, and the run ends after the last entry.
C24_SequentialAndTerminates ==
    /\ [](pc = "loop" => (work_i <= ToProcess /\ RowsInUniverseOrder))
    /\ [](pc \in {"done", "stopped_no_results"} =>
             /\ work_i = ToProcess
             /\ Len(results_rows) <= ToProcess
             /\ \A k, l \in 1..Len(results_rows) :
                   results_rows[k].Ticker = results_rows[l].Ticker => k = l
             /\ \A k \in 1..Len(results_rows) :
                   \E i \in 1..ToProcess : universe[i].Ticker = results_rows[k].Ticker)
    /\ [][pc = "loop" =>
             \/ /\ pc' = "loop"
                /\ work_i' = work_i + 1
                /\ \/ results_rows' = results_rows
                   \/ /\ Len(results_rows') = Len(results_rows) + 1
                      /\ SubSeq(results_rows', 1, Len(results_rows)) = results_rows
                      /\ results_rows'[Len(results_rows')].Ticker = universe[work_i'].Ticker
             \/ /\ pc' \in {"done", "stopped_no_results"}
                /\ work_i = ToProcess
                /\ work_i' = work_i]_vars
    /\ (pc = "loop") ~> (pc \in {"done", "stopped_no_results"})

\* C24 witness: a run over three entries ended with two rows, the second
\* entry having been skipped.
C24_Witness ==
    /\ pc = "done"
    /\ max_tickers = 3 /\ work_i = 3
    /\ Len(results_rows) = 2
    /\ {results_rows[k].Ticker : k \in 1..2} = {universe[1].Ticker, universe[3].Ticker}


\* How many rules of profile key have the status s for the metrics, counted
\* on the checklist itself; none when the rule function raises.
CountStatus(key, metrics, s) ==
    LET res == rules_fn(key, metrics)
    IN IF res.raised THEN 0
       ELSE Cardinality({i \in 1..Len(res.rules) : res.rules[i].status = s})

\* The numbers of rules rated pass, warn and fail over the checklists of
\* the profiles keys, each checklist evaluated once.
RECURSIVE StatusTotals(_, _)
StatusTotals(keys, metrics) ==
    IF Len(keys) = 0 THEN [pass |-> 0, warn |-> 0, fail |-> 0]
    ELSE LET res == rules_fn(Head(keys), metrics)
             rest == StatusTotals(Tail(keys), metrics)
         IN IF res.raised THEN rest
            ELSE [s \in {"pass", "warn", "fail"} |->
                     rest[s] + Cardinality({i \in 1..Len(res.rules) : res.rules[i].status = s})]

\* C25: in the row the loop body builds, the passes, warns and fails are
\* those of the selected profiles' checklists with a raising profile
\* counted as zero (its row is built all the same), Total Rules is their
\* sum (rules rated "na" are left out), Pass Rate is Total Passes / Total
\* Rules and lies in [0, 1] when Total Rules > 0, and Pass Rate is null
\* exactly when Total Rules = 0.
C25_PassRate ==
    Returned("row_dict") =>
        LET r == ret.val
            m == args.metrics
            t == StatusTotals(ret.profiles, m)
        IN /\ r.Ticker = "AAA"
           /\ r.TotalPasses = t.pass
           /\ r.TotalWarns = t.warn
           /\ r.TotalFails = t.fail
           /\ r.TotalRules = r.TotalPasses + r.TotalWarns + r.TotalFails
           /\ r.TotalRules > 0 =>
                 /\ r.PassRate = Num(r.TotalPasses, r.TotalRules)
                 /\ Ge(r.PassRate, Whole(0)) /\ Le(r.PassRate, Whole(1))
           /\ IsNaNv(r.PassRate) <=> r.TotalRules = 0
           /\ \A i \in 1..Len(ret.profiles) :
                 rules_fn(ret.profiles[i], m).raised => r.ProfilePasses[ret.profiles[i]] = 0

\* C25 witness: a row of two profiles, the rule function of one raised and
\* the other one's checklist has a pass beside rules rated "na": the row
\* is built, the raising profile and the "na" rules count for nothing.
C25_Witness ==
    /\ Returned("row_dict")
    /\ Len(ret.profiles) = 2
    /\ \E i, j \in 1..2 :
          /\ rules_fn(ret.profiles[i], args.metrics).raised
          /\ ~rules_fn(ret.profiles[j], args.metrics).raised
          /\ CountStatus(ret.profiles[j], args.metrics, "na") > 0
          /\ ret.val.ProfilePasses[ret.profiles[j]] > 0
    /\ ret.val.TotalRules > 0
    /\ ret.val.PassRate = Whole(1)



\* The place of the P/E threshold rule in the checklists that have one.
PERuleAt == [graham |-> 1, buffett |-> 6, lynch |-> 3, smith |-> 6, burry |-> 2]

\* C26: a P/E that is missing or not positive gives a null earnings yield,
\* so the Greenblatt earnings-yield rule is "na"; a non-positive P/E of
\* the provider is kept as the P/E metric, and the P/E rules of Graham,
\* Buffett, Lynch, Smith and (without an EV/EBITDA) Burry rate it "pass".
C26_NonPositivePE ==
    (pc = "rated" /\ ~ret.val.raised) =>
        LET v == ret.metrics.valuation
            given == DictGet(args.raw.info, "trailingPE")
            rules == ret.val.rules
        IN /\ (~IsNum(v.pe) \/ Le(v.pe, Whole(0))) =>
                 /\ IsNaNv(v.earnings_yield)
                 /\ ret.key = "greenblatt" => rules[1].status = "na"
           /\ (IsNum(given) /\ Le(given, Whole(0))) => v.pe = given
           /\ (IsNum(v.pe) /\ Le(v.pe, Whole(0))) =>
                 /\ ret.key \in {"graham", "buffett", "lynch", "smith"} =>
                       rules[PERuleAt[ret.key]].status = "pass"
                 /\ (ret.key = "burry" /\ IsNaNv(v.ev_ebitda)) =>
                       /\ rules[2].status = "pass"
                       /\ rules[2].name = "P/E"

\* C26 witness: Graham rated a negative P/E of the provider "pass" while
\* the earnings yield of the same metrics is null.
C26_Witness ==
    /\ pc = "rated" /\ ~ret.val.raised
    /\ ret.key = "graham"
    /\ DictGet(args.raw.info, "trailingPE") = Num(-1, 10)
    /\ ret.metrics.valuation.pe = Num(-1, 10)
    /\ IsNaNv(ret.metrics.valuation.earnings_yield)
    /\ ret.val.rules[1].status = "pass"


\* The style each profile's headline names (investors.py 227 ... 1217).
StyleLabel ==
    [graham |-> "Graham", buffett |-> "Buffett", lynch |-> "Lynch",
     greenblatt |-> "Greenblatt", burry |-> "Burry", smith |-> "Smith-style quality",
     dividend |-> "dividend-investor", fisher |-> "Fisher-style growth"]

\* Every metric the profile of the call reads is null (None, NaN or not
\* in the dict).
NoDataAtAll ==
    \A m \in ProfileReads(args.key) :
        IsNone(MetricIn(m[1], m[2])) \/ IsNaNv(MetricIn(m[1], m[2]))

\* C27: with every metric null, every rule of every profile is "na", the
\* summary counts are all 0 and the headline is the "Mixed but somewhat
\* <style>-compatible." label of the profile.
C27_NoDataIsMixed ==
    (Returned("rules_fn") /\ ~ret.val.raised /\ NoDataAtAll) =>
        /\ Len(ret.val.rules) = RuleCount[args.key]
        /\ \A i \in 1..Len(ret.val.rules) : ret.val.rules[i].status = "na"
        /\ ret.val.summary.passes = 0
        /\ ret.val.summary.warns = 0
        /\ ret.val.summary.fails = 0
        /\ ret.val.summary.headline =
              <<"Mixed but somewhat ", StyleLabel[args.key], "-compatible.">>

\* C27 witness: the Fisher checklist was returned for metrics of which one
\* is None and another NaN, the rest being absent.
C27_Witness ==
    /\ Returned("rules_fn") /\ ~ret.val.raised /\ NoDataAtAll
    /\ args.key = "fisher"
    /\ \E m, n \in ProfileReads(args.key) :
          /\ m[1] \in DOMAIN args.metrics /\ m[2] \in DOMAIN args.metrics[m[1]]
          /\ n[1] \in DOMAIN args.metrics /\ n[2] \in DOMAIN args.metrics[n[1]]
          /\ IsNone(args.metrics[m[1]][m[2]]) /\ IsNaNv(args.metrics[n[1]][n[2]])
    /\ ret.val.summary.headline[1] = "Mixed but somewhat "


\* Some metrics dict makes the checklist of profile key "Very
\* <style>-friendly".
SomeInputIsVery(key) ==
    \E P \in SUBSET ProfileReads(key) : \E a \in [P -> MetricVals.narrow] :
        LET res == rules_fn(key, MetricsDict(a, "-", "absent"))
        IN ~res.raised /\ res.summary.headline[1] = "Very "

\* C28: the checklists of Greenblatt and Burry have three rules and never
\* get the "Very <style>-friendly profile." headline, whatever the
\* metrics; every profile with at least four rules gets it for some
\* metrics (looked for once per profile, at its call without any metric).
C28_VeryNeedsFourRules ==
    /\ (Returned("rules_fn") /\ ~ret.val.raised /\ args.key \in {"greenblatt", "burry"}) =>
          /\ Len(ret.val.rules) = 3
          /\ ret.val.summary.headline # Headline("very", StyleLabel[args.key])
          /\ ret.val.summary.headline[1] # "Very "
    /\ (pc = "call" /\ args.fn = "rules_fn"
           /\ args.metrics = MetricsDict(<<>>, "-", "absent")) =>
          /\ RuleCount[args.key] >= 4 <=> args.key \notin {"greenblatt", "burry"}
          /\ RuleCount[args.key] >= 4 => SomeInputIsVery(args.key)

\* C28 witness: all three rules of the Burry checklist passed and the
\* headline is still "Mixed".
C28_Witness ==
    /\ Returned("rules_fn") /\ ~ret.val.raised
    /\ args.key = "burry"
    /\ \A i \in 1..3 : ret.val.rules[i].status = "pass"
    /\ ret.val.summary.passes = 3 /\ ret.val.summary.fails = 0
    /\ ret.val.summary.headline[1] = "Mixed but somewhat "


\* What compute_metrics reports for a raw debtToEquity of r.
ReportedDebtToEquity(r) == cm_debt_to_equity([debtToEquity |-> r])

\* The place of the debt/equity rule in the checklists that have one.
LeverageRuleAt ==
    [graham |-> 4, buffett |-> 5, lynch |-> 4, burry |-> 3, smith |-> 5,
     dividend |-> 4, fisher |-> 5]

\* The status the debt/equity rule of profile key gets when the metrics
\* report the debt/equity d, everything else as in metrics.
LeverageStatusWith(key, metrics, d) ==
    rules_fn(key, [metrics EXCEPT !.balance_sheet.debt_to_equity = d])
        .rules[LeverageRuleAt[key]].status

\* C29 (as claimed): a non-null raw debtToEquity r is reported as r when
\* r <= 10 and as r / 100 when r > 10, so what is reported is at most 10
\* for every raw r <= 1000; the mapping is not monotone: a raw value just
\* above 10 is reported smaller than the raw value 1 is, and there is a
\* leverage rule that it passes and that the raw value 1 fails.
C29_RawOneFailsLeverageRule ==
    (pc = "rated" /\ IsNum(DictGetOr(args.raw.info, "debtToEquity", NaN))) =>
        LET r == args.raw.info.debtToEquity
            d == ret.metrics.balance_sheet.debt_to_equity
        IN /\ Le(r, Whole(10)) => d = r
           /\ Gt(r, Whole(10)) => (IsNum(d) /\ Mul(d, Whole(100)) = r)
           /\ Le(r, Whole(1000)) => Le(d, Whole(10))
           /\ (Gt(r, Whole(10)) /\ Le(r, Whole(50))) =>
                 /\ Lt(d, ReportedDebtToEquity(Whole(1)))
                 /\ \E key \in LeverageProfiles :
                       /\ LeverageStatusWith(key, ret.metrics, d) = "pass"
                       /\ LeverageStatusWith(key, ret.metrics,
                                             ReportedDebtToEquity(Whole(1))) = "fail"

\* C29 (amended): a non-null raw debtToEquity r is reported as r when
\* r <= 10 and as r / 100 when r > 10, so what is reported is at most 10
\* for every raw r <= 1000; the mapping is not monotone: a raw value just
\* above 10 is reported smaller than the raw value 1 is, and it passes
\* every debt/equity rule, on which the raw value 1 gets a warn (never a
\* fail) and the raw value 2 fails.
C29_DebtToEquityNormalisation ==
    (pc = "rated" /\ IsNum(DictGetOr(args.raw.info, "debtToEquity", NaN))) =>
        LET r == args.raw.info.debtToEquity
            d == ret.metrics.balance_sheet.debt_to_equity
        IN /\ Le(r, Whole(10)) => d = r
           /\ Gt(r, Whole(10)) => (IsNum(d) /\ Mul(d, Whole(100)) = r)
           /\ Le(r, Whole(1000)) => Le(d, Whole(10))
           /\ (Gt(r, Whole(10)) /\ Le(r, Whole(50))) =>
                 /\ ReportedDebtToEquity(Whole(1)) = Whole(1)
                 /\ ReportedDebtToEquity(Whole(2)) = Whole(2)
                 /\ Lt(d, ReportedDebtToEquity(Whole(1)))
                 /\ ret.key \in LeverageProfiles =>
                       /\ ret.val.rules[LeverageRuleAt[ret.key]].status = "pass"
                       /\ LeverageStatusWith(ret.key, ret.metrics,
                                             ReportedDebtToEquity(Whole(1))) = "warn"
                       /\ LeverageStatusWith(ret.key, ret.metrics,
                                             ReportedDebtToEquity(Whole(2))) = "fail"

\* C29 witness: the raw debtToEquity 10.01 was reported as 0.1001 and
\* passed Graham's debt/equity rule.
C29_Witness ==
    /\ pc = "rated"
    /\ ret.key = "graham"
    /\ DictGetOr(args.raw.info, "debtToEquity", NaN) = Num(1001, 100)
    /\ ret.metrics.balance_sheet.debt_to_equity = Num(1001, 10000)
    /\ ret.val.rules[4].status = "pass"


\* The screens of the Burry lens that hold for the multiples of the call:
\* EV/EBITDA < 8, EV/EBIT < 10, FCF yield > 0.08.
HeldScreens ==
    LET m == ret.multiples
    IN {s \in {"ev_ebitda", "ev_ebit", "fcf_yield"} :
           /\ IsNum(m[s])
           /\ \/ s = "ev_ebitda" /\ m[s].num < 8 * m[s].den
              \/ s = "ev_ebit" /\ m[s].num < 10 * m[s].den
              \/ s = "fcf_yield" /\ 100 * m[s].num > 8 * m[s].den}

\* The three metrics of the lens that are null.
NullScreens == {s \in {"ev_ebitda", "ev_ebit", "fcf_yield"} : ~IsNum(ret.multiples[s])}

\* C30: the verdict of burry_lens is "Strong" exactly when at least two of
\* the three screens hold, "Mixed" when exactly one holds and "Weak" when
\* none holds; a null metric is no held screen and has no heuristic note,
\* so three null metrics give "Weak" and an empty heuristics list.
C30_BurryLensVerdict ==
    Returned("burry_lens") =>
        /\ ~ret.val.raised
        /\ ret.val.verdict = "Strong" <=> Cardinality(HeldScreens) >= 2
        /\ ret.val.verdict = "Mixed" <=> Cardinality(HeldScreens) = 1
        /\ ret.val.verdict = "Weak" <=> Cardinality(HeldScreens) = 0
        /\ HeldScreens \cap NullScreens = {}
        /\ Len(ret.val.notes) = 3 - Cardinality(NullScreens)
        /\ Cardinality(NullScreens) = 3 => (ret.val.verdict = "Weak" /\ ret.val.notes = <<>>)

\* C30 witness: EV/EBITDA is exactly 8 and EV/EBIT is null, the FCF yield
\* is the one screen that holds: the verdict is "Mixed" with two notes.
C30_Witness ==
    /\ Returned("burry_lens")
    /\ ret.multiples.ev_ebitda = Whole(8)
    /\ IsNaNv(ret.multiples.ev_ebit)
    /\ Gt(ret.multiples.fcf_yield, Pct(8))
    /\ ret.val.verdict = "Mixed"
    /\ Len(ret.val.notes) = 2

=============================================================================
